---- MODULE Spec2Model ----
(***************************************************************************)
(* Connection manager and query-safety classifier of mysql-golang-mcp.     *)
(* SQL statements are TLA+ strings; the string helpers below compute what  *)
(* the Go strings package computes on ASCII text.                          *)
(***************************************************************************)
EXTENDS Integers, Sequences, FiniteSets, TLC

\* ------------------------------------------------------------------------
\* Bounds of the model
\* ------------------------------------------------------------------------
\* largest number of white-space characters put in front of a statement
MaxLead == 1
\* largest number of rows a driver result set holds
MaxResultRows == 3

\* ------------------------------------------------------------------------
\* strings package
\* ------------------------------------------------------------------------
LowerLetters == "abcdefghijklmnopqrstuvwxyz"
UpperLetters == "ABCDEFGHIJKLMNOPQRSTUVWXYZ"

CharAt(s, i) == SubSeq(s, i, i)

\* the upper-case letter of each lower-case letter
UpperTable ==
    [c \in {CharAt(LowerLetters, i) : i \in 1..Len(LowerLetters)} |->
        CharAt(UpperLetters, CHOOSE i \in 1..Len(LowerLetters) : CharAt(LowerLetters, i) = c)]

\* unicode.ToUpper on one ASCII character
ToUpperChar(c) == IF c \in DOMAIN UpperTable THEN UpperTable[c] ELSE c

RECURSIVE ToUpperFrom(_, _)
ToUpperFrom(s, i) ==
    IF i > Len(s) THEN "" ELSE ToUpperChar(CharAt(s, i)) \o ToUpperFrom(s, i + 1)

\* strings.ToUpper
ToUpper(s) == ToUpperFrom(s, 1)

\* the vertical tab, '\v' in Go (the character of code 11)
VerticalTab == ""

\* unicode.IsSpace on the ASCII white space: '\t', '\n', '\v', '\f', '\r'
\* and ' '
IsSpace(c) == c \in {" ", "\t", "\n", VerticalTab, "\f", "\r"}

\* strings.TrimSpace: drop leading and trailing white space
TrimSpace(s) ==
    LET keep == {i \in 1..Len(s) : ~IsSpace(CharAt(s, i))}
    IN  IF keep = {} THEN ""
        ELSE SubSeq(s, CHOOSE i \in keep : \A j \in keep : i <= j,
                       CHOOSE i \in keep : \A j \in keep : j <= i)

\* strings.HasPrefix
HasPrefix(s, prefix) ==
    Len(s) >= Len(prefix) /\ SubSeq(s, 1, Len(prefix)) = prefix

\* strings.Contains
Contains(s, substr) ==
    \E i \in 0..(Len(s) - Len(substr)) : SubSeq(s, i + 1, i + Len(substr)) = substr

RECURSIVE JoinFrom(_, _, _)
JoinFrom(elems, sep, i) ==
    IF i > Len(elems) THEN ""
    ELSE IF i = Len(elems) THEN elems[i]
    ELSE elems[i] \o sep \o JoinFrom(elems, sep, i + 1)

\* strings.Join
Join(elems, sep) == JoinFrom(elems, sep, 1)

\* ------------------------------------------------------------------------
\* Classifier (validator.go)
\* ------------------------------------------------------------------------
QueryTypeUnknown == 0
QueryTypeSelect == 1
QueryTypeInsert == 2
QueryTypeUpdate == 3
QueryTypeDelete == 4
QueryTypeAlter == 5
QueryTypeShow == 6
QueryTypeDescribe == 7
QueryTypeExplain == 8
QueryTypeDrop == 9
QueryTypeTruncate == 10
QueryTypeCreate == 11
QueryTypeGrant == 12
QueryTypeRevoke == 13
QueryTypeSet == 14
QueryTypeUse == 15

QueryType == QueryTypeUnknown..QueryTypeUse

\* a slip: the DESC row of the table carries the type of the DELETE row
prefixMap_DescSlip == <<
    [prefix |-> "SELECT",   queryType |-> QueryTypeSelect],
    [prefix |-> "INSERT",   queryType |-> QueryTypeInsert],
    [prefix |-> "UPDATE",   queryType |-> QueryTypeUpdate],
    [prefix |-> "DELETE",   queryType |-> QueryTypeDelete],
    [prefix |-> "ALTER",    queryType |-> QueryTypeAlter],
    [prefix |-> "SHOW",     queryType |-> QueryTypeShow],
    [prefix |-> "DESCRIBE", queryType |-> QueryTypeDescribe],
    [prefix |-> "DESC ",    queryType |-> QueryTypeDelete],
    [prefix |-> "EXPLAIN",  queryType |-> QueryTypeExplain],
    [prefix |-> "DROP",     queryType |-> QueryTypeDrop],
    [prefix |-> "TRUNCATE", queryType |-> QueryTypeTruncate],
    [prefix |-> "CREATE",   queryType |-> QueryTypeCreate],
    [prefix |-> "GRANT",    queryType |-> QueryTypeGrant],
    [prefix |-> "REVOKE",   queryType |-> QueryTypeRevoke],
    [prefix |-> "SET",      queryType |-> QueryTypeSet],
    [prefix |-> "USE",      queryType |-> QueryTypeUse] >>

\* the ordered prefix table of DetectQueryType
prefixMap == <<
    [prefix |-> "SELECT",   queryType |-> QueryTypeSelect],
    [prefix |-> "INSERT",   queryType |-> QueryTypeInsert],
    [prefix |-> "UPDATE",   queryType |-> QueryTypeUpdate],
    [prefix |-> "DELETE",   queryType |-> QueryTypeDelete],
    [prefix |-> "ALTER",    queryType |-> QueryTypeAlter],
    [prefix |-> "SHOW",     queryType |-> QueryTypeShow],
    [prefix |-> "DESCRIBE", queryType |-> QueryTypeDescribe],
    [prefix |-> "DESC ",    queryType |-> QueryTypeDescribe],
    [prefix |-> "EXPLAIN",  queryType |-> QueryTypeExplain],
    [prefix |-> "DROP",     queryType |-> QueryTypeDrop],
    [prefix |-> "TRUNCATE", queryType |-> QueryTypeTruncate],
    [prefix |-> "CREATE",   queryType |-> QueryTypeCreate],
    [prefix |-> "GRANT",    queryType |-> QueryTypeGrant],
    [prefix |-> "REVOKE",   queryType |-> QueryTypeRevoke],
    [prefix |-> "SET",      queryType |-> QueryTypeSet],
    [prefix |-> "USE",      queryType |-> QueryTypeUse] >>

\* a slip: the statement is upper-cased but not trimmed
DetectWith_NoTrim(table, query) ==
    LET q == ToUpper(query)
        hits == {i \in 1..Len(table) : HasPrefix(q, table[i].prefix)}
    IN  IF hits = {} THEN QueryTypeUnknown
        ELSE table[CHOOSE i \in hits : \A j \in hits : i <= j].queryType

\* the loop of DetectQueryType over a prefix table: the first entry whose
\* prefix matches decides
DetectWith(table, query) ==
    LET q == TrimSpace(ToUpper(query))
        hits == {i \in 1..Len(table) : HasPrefix(q, table[i].prefix)}
    IN  IF hits = {} THEN QueryTypeUnknown
        ELSE table[CHOOSE i \in hits : \A j \in hits : i <= j].queryType

DetectQueryType(query) == DetectWith(prefixMap, query)

GetQueryTypeLabel(qt) ==
    CASE qt = QueryTypeUnknown  -> "UNKNOWN"
      [] qt = QueryTypeSelect   -> "SELECT"
      [] qt = QueryTypeInsert   -> "INSERT"
      [] qt = QueryTypeUpdate   -> "UPDATE"
      [] qt = QueryTypeDelete   -> "DELETE"
      [] qt = QueryTypeAlter    -> "ALTER"
      [] qt = QueryTypeShow     -> "SHOW"
      [] qt = QueryTypeDescribe -> "DESCRIBE"
      [] qt = QueryTypeExplain  -> "EXPLAIN"
      [] qt = QueryTypeDrop     -> "DROP"
      [] qt = QueryTypeTruncate -> "TRUNCATE"
      [] qt = QueryTypeCreate   -> "CREATE"
      [] qt = QueryTypeGrant    -> "GRANT"
      [] qt = QueryTypeRevoke   -> "REVOKE"
      [] qt = QueryTypeSet      -> "SET"
      [] qt = QueryTypeUse      -> "USE"
      [] OTHER                  -> "UNKNOWN"

\* a slip: SET counted among the read-only types
IsReadOnlyQueryType_WithSet(qt) ==
    qt \in {QueryTypeSelect, QueryTypeShow, QueryTypeDescribe, QueryTypeExplain,
            QueryTypeSet}

IsReadOnlyQueryType(qt) ==
    qt \in {QueryTypeSelect, QueryTypeShow, QueryTypeDescribe, QueryTypeExplain}

\* a slip: only the destructive types count as dangerous
IsDangerousQueryType_Partial(qt) == qt \in {QueryTypeDrop, QueryTypeTruncate}

IsDangerousQueryType(qt) ==
    qt \in {QueryTypeDrop, QueryTypeTruncate, QueryTypeCreate, QueryTypeGrant,
            QueryTypeRevoke}

\* an error value: its kind and the text the message carries
Error(kind, detail) == [kind |-> kind, detail |-> detail]
NoError == Error("nil", "")

\* a slip: only the first allowed type is named in the message
ValidateQueryType_FirstLabelOnly(query, allowed) ==
    LET detected == DetectQueryType(query)
    IN  IF \E i \in 1..Len(allowed) : detected = allowed[i]
        THEN NoError
        ELSE Error("QueryTypeMismatch",
                   "expected " \o GetQueryTypeLabel(allowed[1]) \o ", got "
                       \o GetQueryTypeLabel(detected))

\* ValidateQueryType(query, allowed...): allowed is the sequence of types
ValidateQueryType(query, allowed) ==
    LET detected == DetectQueryType(query)
        expectedLabels == [i \in 1..Len(allowed) |-> GetQueryTypeLabel(allowed[i])]
    IN  IF \E i \in 1..Len(allowed) : detected = allowed[i]
        THEN NoError
        ELSE Error("QueryTypeMismatch",
                   "expected " \o Join(expectedLabels, "/") \o ", got "
                       \o GetQueryTypeLabel(detected))

\* ------------------------------------------------------------------------
\* Text predicates of the manager (connection.go)
\* ------------------------------------------------------------------------
readOnlyPrefixes == <<"SELECT", "SHOW", "DESCRIBE", "DESC", "EXPLAIN">>
dangerousPrefixes == <<"DROP", "ALTER", "TRUNCATE", "CREATE", "GRANT", "REVOKE">>
blockedPatterns == <<"DROP DATABASE", "DROP SCHEMA", "TRUNCATE", "CREATE DATABASE",
                     "GRANT", "REVOKE">>

isReadOnlyQuery(query) ==
    LET q == TrimSpace(ToUpper(query))
    IN  \E i \in 1..Len(readOnlyPrefixes) : HasPrefix(q, readOnlyPrefixes[i])

isDangerousQuery(query) ==
    LET q == TrimSpace(ToUpper(query))
    IN  \E i \in 1..Len(dangerousPrefixes) : HasPrefix(q, dangerousPrefixes[i])

\* a slip: the statement is searched without upper-casing it
isSensitiveQuery_NoUpper(query) ==
    \/ Contains(query, "SHOW GRANTS")
    \/ Contains(query, "MYSQL.USER")
    \/ Contains(query, "USER_PRIVILEGES")
    \/ Contains(query, "SHOW PROCESSLIST")
    \/ Contains(query, "SHOW FULL PROCESSLIST")

isSensitiveQuery(query) ==
    LET q == ToUpper(query)
    IN  \/ Contains(q, "SHOW GRANTS")
        \/ Contains(q, "MYSQL.USER")
        \/ Contains(q, "USER_PRIVILEGES")
        \/ Contains(q, "SHOW PROCESSLIST")
        \/ Contains(q, "SHOW FULL PROCESSLIST")

\* ------------------------------------------------------------------------
\* Configuration (package config)
\* ------------------------------------------------------------------------
DefaultPort == 3306
DefaultMaxRows == 1000

\* the process environment read by expandEnvVar
Environ == [name \in {"DB_HOST"} |-> "db.internal"]
Getenv(name) == IF name \in DOMAIN Environ THEN Environ[name] ELSE ""

\* expandEnvVar: a value of the exact form ${NAME} becomes the variable's value
expandEnvVar(value) ==
    LET inner == SubSeq(value, 3, Len(value) - 1)
    IN  IF /\ Len(value) >= 4
           /\ HasPrefix(value, "${")
           /\ CharAt(value, Len(value)) = "}"
           /\ ~Contains(inner, "}")
        THEN Getenv(inner)
        ELSE value

\* validateAndApplyDefaults: the error, and the connection as it is left
validateAndApplyDefaults(name, conn) ==
    LET expanded == [conn EXCEPT !.Host = expandEnvVar(conn.Host),
                                 !.User = expandEnvVar(conn.User),
                                 !.Password = expandEnvVar(conn.Password),
                                 !.Database = expandEnvVar(conn.Database)]
    IN  IF expanded.Host = "" THEN [err |-> Error("ConfigError", "host is required"), conn |-> expanded]
        ELSE IF expanded.User = "" THEN [err |-> Error("ConfigError", "user is required"), conn |-> expanded]
        ELSE IF expanded.Database = "" THEN [err |-> Error("ConfigError", "database is required"), conn |-> expanded]
        ELSE [err |-> NoError,
              conn |-> [expanded EXCEPT
                          !.Port = IF expanded.Port = 0 THEN DefaultPort ELSE expanded.Port,
                          !.MaxRows = IF expanded.MaxRows = 0 THEN DefaultMaxRows
                                      ELSE expanded.MaxRows]]

\* LoadConfig on the parsed file: the error, and the registry
LoadConfig(raw) ==
    LET checked == [name \in DOMAIN raw |-> validateAndApplyDefaults(name, raw[name])]
    IN  IF \E name \in DOMAIN raw : checked[name].err # NoError
        THEN [err |-> Error("ConfigError", "invalid connection"), cfg |-> << >>]
        ELSE IF DOMAIN raw = {}
        THEN [err |-> Error("ConfigError", "no connections defined in config"), cfg |-> << >>]
        ELSE [err |-> NoError, cfg |-> [name \in DOMAIN raw |-> checked[name].conn]]

\* a connection entry as json.Unmarshal leaves it (absent fields are zero)
RawConn(host, readOnly, maxRows) ==
    [Host |-> host, Port |-> 0, User |-> "app", Password |-> "secret",
     Database |-> "shop", ReadOnly |-> readOnly, MaxRows |-> maxRows]

\* the configuration files the model starts from: a writable and a
\* read-only connection, with max_rows set, absent (0) or negative, and one
\* file the loader rejects
RawConfigs ==
    { [name \in {"main"} |-> RawConn("${DB_HOST}", FALSE, 1)],
      [name \in {"main"} |-> RawConn("10.0.0.2", TRUE, 2)],
      [name \in {"main"} |-> RawConn("10.0.0.1", FALSE, 0)],
      [name \in {"main"} |-> RawConn("10.0.0.2", TRUE, -1)],
      [name \in {"main"} |-> RawConn("", FALSE, 5)] }

\* connection names a caller passes; "ghost" is in no registry
ConnectionNames == {"main", "ghost"}

\* a configuration file with two connections, for callers that work on
\* different names at the same time
TwoConnections ==
    [name \in {"main", "aux"} |->
        IF name = "main" THEN RawConn("10.0.0.1", FALSE, 0) ELSE RawConn("10.0.0.2", TRUE, 2)]

\* the goroutines that run tool handlers at the same time
Callers == {"h1", "h2"}

\* ------------------------------------------------------------------------
\* Manager state (connection.go)
\* ------------------------------------------------------------------------
VARIABLES
    config,        \* Manager.config.Connections: name -> ConnectionConfig
    connections,   \* Manager.connections: name -> state of the pooled handle
    last,          \* the call made last: its arguments, driver calls and outcome
    \* the same manager seen step by step, for callers that interleave
    handles,       \* every *sql.DB that sql.Open returned, in order: its name, whether it is closed
    pool,          \* Manager.connections by identity: name -> index in handles, 0 for no entry
    mu,            \* Manager.mu: "free", or who holds the write lock
    callers,       \* each tool handler in progress: where it is and its local variables
    teardown       \* main's deferred manager.Close()

\* the state of the step-by-step view
conc == <<handles, pool, mu, callers, teardown>>

vars == <<config, connections, last, handles, pool, mu, callers, teardown>>

Nil == [nil |-> TRUE]

\* states of a pool entry: no entry, an entry whose handle is open, an entry
\* whose handle the manager has closed
HandleStates == {"absent", "open", "closed"}

DriverCall(fn, arg) == [fn |-> fn, arg |-> arg]

\* sql.DB.Ping: a closed handle always fails, an open one when the server is
\* not reachable
Ping(handle, alive) == handle = "open" /\ alive

\* what the database does during one GetConnection: the answer to the probe
\* of the pooled handle (line 42), of the re-check (line 55), of sql.Open
\* and of the probe of the new handle (line 71)
Envs == [ping1 : BOOLEAN, ping2 : BOOLEAN, open : BOOLEAN, ping3 : BOOLEAN]

\* a slip: the registry is consulted only after m.mu.RLock
GetConnection_LookupUnderLock(name, env) ==
    IF name \notin DOMAIN config
    THEN [db |-> Nil, connConfig |-> Nil,
          err |-> Error("UnknownConnection", name),
          calls |-> << >>, connections |-> connections, locked |-> {"RLock"}]
    ELSE
    LET connConfig == config[name]
        exists1 == connections[name] # "absent"
        ok1 == exists1 /\ Ping(connections[name], env.ping1)
        \* lines 40-47: probe, and close the dead handle (it stays in the map)
        calls1 == IF ~exists1 THEN << >>
                  ELSE IF ok1 THEN <<DriverCall("Ping", name)>>
                  ELSE <<DriverCall("Ping", name), DriverCall("Close", name)>>
        conns1 == IF exists1 /\ ~ok1 THEN [connections EXCEPT ![name] = "closed"]
                  ELSE connections
        \* lines 53-59: re-check under the write lock
        exists2 == conns1[name] # "absent"
        ok2 == exists2 /\ Ping(conns1[name], env.ping2)
        calls2 == IF ~exists2 THEN calls1
                  ELSE IF ok2 THEN Append(calls1, DriverCall("Ping", name))
                  ELSE calls1 \o <<DriverCall("Ping", name), DriverCall("Close", name)>>
        conns2 == IF exists2 /\ ~ok2 THEN [conns1 EXCEPT ![name] = "closed"] ELSE conns1
        \* lines 61-68
        calls3 == Append(calls2, DriverCall("Open", name))
        calls4 == calls3 \o <<DriverCall("SetMaxOpenConns", "5"), DriverCall("SetMaxIdleConns", "2")>>
    IN  IF ok1
        THEN [db |-> name, connConfig |-> connConfig, err |-> NoError,
              calls |-> calls1, connections |-> connections, locked |-> {"RLock"}]
        ELSE IF ok2
        THEN [db |-> name, connConfig |-> connConfig, err |-> NoError,
              calls |-> calls2, connections |-> conns1, locked |-> {"RLock", "Lock"}]
        ELSE IF ~env.open
        THEN [db |-> Nil, connConfig |-> Nil,
              err |-> Error("ConnectionFailure", "failed to open connection"),
              calls |-> calls3, connections |-> conns2, locked |-> {"RLock", "Lock"}]
        ELSE IF ~Ping("open", env.ping3)
        THEN [db |-> Nil, connConfig |-> Nil,
              err |-> Error("ConnectionFailure", "failed to connect"),
              calls |-> calls4 \o <<DriverCall("Ping", name), DriverCall("Close", name)>>,
              connections |-> conns2, locked |-> {"RLock", "Lock"}]
        ELSE [db |-> name, connConfig |-> connConfig, err |-> NoError,
              calls |-> Append(calls4, DriverCall("Ping", name)),
              connections |-> [conns2 EXCEPT ![name] = "open"], locked |-> {"RLock", "Lock"}]

\* GetConnection run without interleaving: the handle returned, the error,
\* the driver calls made, the pool map afterwards and the modes in which
\* m.mu was taken (RLock at line 36, Lock at line 50)
GetConnection(name, env) ==
    IF name \notin DOMAIN config
    THEN [db |-> Nil, connConfig |-> Nil,
          err |-> Error("UnknownConnection", name),
          calls |-> << >>, connections |-> connections, locked |-> {}]
    ELSE
    LET connConfig == config[name]
        exists1 == connections[name] # "absent"
        ok1 == exists1 /\ Ping(connections[name], env.ping1)
        \* lines 40-47: probe, and close the dead handle (it stays in the map)
        calls1 == IF ~exists1 THEN << >>
                  ELSE IF ok1 THEN <<DriverCall("Ping", name)>>
                  ELSE <<DriverCall("Ping", name), DriverCall("Close", name)>>
        conns1 == IF exists1 /\ ~ok1 THEN [connections EXCEPT ![name] = "closed"]
                  ELSE connections
        \* lines 53-59: re-check under the write lock
        exists2 == conns1[name] # "absent"
        ok2 == exists2 /\ Ping(conns1[name], env.ping2)
        calls2 == IF ~exists2 THEN calls1
                  ELSE IF ok2 THEN Append(calls1, DriverCall("Ping", name))
                  ELSE calls1 \o <<DriverCall("Ping", name), DriverCall("Close", name)>>
        conns2 == IF exists2 /\ ~ok2 THEN [conns1 EXCEPT ![name] = "closed"] ELSE conns1
        \* lines 61-68
        calls3 == Append(calls2, DriverCall("Open", name))
        calls4 == calls3 \o <<DriverCall("SetMaxOpenConns", "5"), DriverCall("SetMaxIdleConns", "2")>>
    IN  IF ok1
        THEN [db |-> name, connConfig |-> connConfig, err |-> NoError,
              calls |-> calls1, connections |-> connections, locked |-> {"RLock"}]
        ELSE IF ok2
        THEN [db |-> name, connConfig |-> connConfig, err |-> NoError,
              calls |-> calls2, connections |-> conns1, locked |-> {"RLock", "Lock"}]
        ELSE IF ~env.open
        THEN [db |-> Nil, connConfig |-> Nil,
              err |-> Error("ConnectionFailure", "failed to open connection"),
              calls |-> calls3, connections |-> conns2, locked |-> {"RLock", "Lock"}]
        ELSE IF ~Ping("open", env.ping3)
        THEN [db |-> Nil, connConfig |-> Nil,
              err |-> Error("ConnectionFailure", "failed to connect"),
              calls |-> calls4 \o <<DriverCall("Ping", name), DriverCall("Close", name)>>,
              connections |-> conns2, locked |-> {"RLock", "Lock"}]
        ELSE [db |-> name, connConfig |-> connConfig, err |-> NoError,
              calls |-> Append(calls4, DriverCall("Ping", name)),
              connections |-> [conns2 EXCEPT ![name] = "open"], locked |-> {"RLock", "Lock"}]

\* every way one GetConnection call can go from the current pool
GetConnectionResults(name) == {GetConnection(name, env) : env \in Envs}

\* ------------------------------------------------------------------------
\* The driver's answers
\* ------------------------------------------------------------------------
ColumnLists == { <<"id", "name">>, <<"id", "id">> }

\* the value the driver scans into position j of row i: raw bytes or a number
DriverValue(i, j) ==
    IF (i + j) % 2 = 0 THEN [type |-> "[]byte", v |-> 10 * i + j]
    ELSE [type |-> "int64", v |-> 10 * i + j]

\* the answer to db.Query: fault "query" fails Query, "columns" fails
\* rows.Columns, "scan" fails rows.Scan on row `at`, "next" makes rows.Next
\* stop with a driver error after `at` rows; n is the size of the result set
QueryResponses ==
    [fault : {"none"}, columns : ColumnLists, n : 0..MaxResultRows, at : {0}]
    \cup [fault : {"query", "columns"}, columns : { <<"id", "name">> }, n : {0}, at : {0}]
    \cup [fault : {"scan"}, columns : { <<"id", "name">> }, n : {MaxResultRows},
          at : 1..MaxResultRows]
    \cup [fault : {"next"}, columns : { <<"id", "name">> }, n : {MaxResultRows},
          at : 0..(MaxResultRows - 1)]

\* the answer to db.Exec
ExecResponses ==
    { [fault |-> "exec", rowsAffected |-> 0, lastInsertId |-> 0],
      [fault |-> "none", rowsAffected |-> 0, lastInsertId |-> 0],
      [fault |-> "none", rowsAffected |-> 1, lastInsertId |-> 7] }

\* number of rows rows.Next delivers before it returns false
Delivered(resp) == IF resp.fault = "next" THEN resp.at ELSE resp.n

\* a slip: the first column of a name wins over the later ones
ConvertRow_FirstWins(columns, i) ==
    [col \in {columns[j] : j \in 1..Len(columns)} |->
        LET j == CHOOSE k \in 1..Len(columns) :
                    /\ columns[k] = col
                    /\ \A k2 \in 1..Len(columns) : columns[k2] = col => k <= k2
            val == DriverValue(i, j)
        IN  IF val.type = "[]byte" THEN [type |-> "string", v |-> val.v] ELSE val]

\* lines 179-188: the row map built from the scanned values; a later column
\* of the same name overwrites an earlier one
ConvertRow(columns, i) ==
    [col \in {columns[j] : j \in 1..Len(columns)} |->
        LET j == CHOOSE k \in 1..Len(columns) :
                    /\ columns[k] = col
                    /\ \A k2 \in 1..Len(columns) : columns[k2] = col => k2 <= k
            val == DriverValue(i, j)
        IN  IF val.type = "[]byte" THEN [type |-> "string", v |-> val.v] ELSE val]

\* a slip: the cap is tested with > and lets one more row through
RECURSIVE ScanLoop_OffByOne(_, _, _, _, _)
ScanLoop_OffByOne(resp, maxRows, rows, rowCount, i) ==
    IF i > Delivered(resp) THEN [err |-> NoError, rows |-> rows, rowCount |-> rowCount]
    ELSE IF rowCount > maxRows THEN [err |-> NoError, rows |-> rows, rowCount |-> rowCount]
    ELSE IF resp.fault = "scan" /\ resp.at = i
    THEN [err |-> Error("ResultDecodeFailure", "failed to scan row"),
          rows |-> rows, rowCount |-> rowCount]
    ELSE ScanLoop_OffByOne(resp, maxRows, Append(rows, ConvertRow(resp.columns, i)),
                           rowCount + 1, i + 1)

\* lines 169-191: the loop over rows.Next from row i on; rows and rowCount
\* are the rows collected so far and their counter; yields the error, the
\* rows and the counter
RECURSIVE ScanLoop(_, _, _, _, _)
ScanLoop(resp, maxRows, rows, rowCount, i) ==
    IF i > Delivered(resp) THEN [err |-> NoError, rows |-> rows, rowCount |-> rowCount]
    ELSE IF rowCount >= maxRows THEN [err |-> NoError, rows |-> rows, rowCount |-> rowCount]
    ELSE IF resp.fault = "scan" /\ resp.at = i
    THEN [err |-> Error("ResultDecodeFailure", "failed to scan row"),
          rows |-> rows, rowCount |-> rowCount]
    ELSE ScanLoop(resp, maxRows, Append(rows, ConvertRow(resp.columns, i)),
                  rowCount + 1, i + 1)

\* lines 146-194: db.Query and the collection of its rows
CollectQuery(connConfig, query, resp) ==
    LET loop == ScanLoop(resp, connConfig.MaxRows, << >>, 0, 1)
    IN  IF resp.fault = "query"
        THEN [err |-> Error("ExecutionFailure", "query execution failed"),
              result |-> Nil, calls |-> <<DriverCall("Query", query)>>]
        ELSE IF resp.fault = "columns"
        THEN [err |-> Error("ResultDecodeFailure", "failed to get columns"),
              result |-> Nil, calls |-> <<DriverCall("Query", query)>>]
        ELSE IF loop.err # NoError
        THEN [err |-> loop.err, result |-> Nil, calls |-> <<DriverCall("Query", query)>>]
        ELSE [err |-> NoError,
              result |-> [Columns |-> resp.columns, Rows |-> loop.rows,
                          Count |-> loop.rowCount],
              calls |-> <<DriverCall("Query", query)>>]

\* a slip: a failed Exec is issued a second time
CollectExec_RetryOnce(query, resp, withLastInsertID) ==
    IF resp.fault = "exec"
    THEN [err |-> Error("ExecutionFailure", "query execution failed"),
          result |-> Nil, calls |-> <<DriverCall("Exec", query), DriverCall("Exec", query)>>]
    ELSE [err |-> NoError,
          result |-> [RowsAffected |-> resp.rowsAffected,
                      LastInsertID |-> IF withLastInsertID THEN resp.lastInsertId ELSE 0],
          calls |-> <<DriverCall("Exec", query)>>]

\* db.Exec and the WriteResult built from it; withLastInsertID is false for
\* ExecuteAlter, which leaves LastInsertID at zero
CollectExec(query, resp, withLastInsertID) ==
    IF resp.fault = "exec"
    THEN [err |-> Error("ExecutionFailure", "query execution failed"),
          result |-> Nil, calls |-> <<DriverCall("Exec", query)>>]
    ELSE [err |-> NoError,
          result |-> [RowsAffected |-> resp.rowsAffected,
                      LastInsertID |-> IF withLastInsertID THEN resp.lastInsertId ELSE 0],
          calls |-> <<DriverCall("Exec", query)>>]

\* ------------------------------------------------------------------------
\* The safety gates of the four execution modes
\* ------------------------------------------------------------------------
\* a slip: ExecuteQuery applies the read-only check to dangerous text only
QueryGate_ReadOnlySlip(connConfig, query) ==
    IF connConfig.ReadOnly /\ isDangerousQuery(query)
    THEN Error("ReadOnlyViolation", "write operations are not allowed")
    ELSE IF ~connConfig.ReadOnly /\ isDangerousQuery(query)
    THEN Error("DangerousOperationBlocked", "dangerous operations are not allowed")
    ELSE IF isSensitiveQuery(query)
    THEN Error("SensitiveAccessBlocked", "access to sensitive MySQL metadata is not allowed")
    ELSE NoError

\* ExecuteQuery, lines 131-144
QueryGate(connConfig, query) ==
    IF connConfig.ReadOnly /\ ~isReadOnlyQuery(query)
    THEN Error("ReadOnlyViolation", "write operations are not allowed")
    ELSE IF ~connConfig.ReadOnly /\ isDangerousQuery(query)
    THEN Error("DangerousOperationBlocked", "dangerous operations are not allowed")
    ELSE IF isSensitiveQuery(query)
    THEN Error("SensitiveAccessBlocked", "access to sensitive MySQL metadata is not allowed")
    ELSE NoError

\* a slip: ExecuteWrite without its read-only check
WriteGate_NoReadOnly(connConfig, query, allowedTypes) ==
    LET mismatch == IF Len(allowedTypes) > 0 THEN ValidateQueryType(query, allowedTypes)
                    ELSE NoError
        queryType == DetectQueryType(query)
    IN  IF mismatch # NoError THEN mismatch
        ELSE IF IsDangerousQueryType(queryType)
        THEN Error("DangerousOperationBlocked", "dangerous operations are not allowed")
        ELSE IF isSensitiveQuery(query)
        THEN Error("SensitiveAccessBlocked", "access to sensitive MySQL metadata is not allowed")
        ELSE NoError

\* ExecuteWrite, lines 255-276
WriteGate(connConfig, query, allowedTypes) ==
    LET mismatch == IF Len(allowedTypes) > 0 THEN ValidateQueryType(query, allowedTypes)
                    ELSE NoError
        queryType == DetectQueryType(query)
    IN  IF mismatch # NoError THEN mismatch
        ELSE IF connConfig.ReadOnly
        THEN Error("ReadOnlyViolation", "write operations are not allowed")
        ELSE IF IsDangerousQueryType(queryType)
        THEN Error("DangerousOperationBlocked", "dangerous operations are not allowed")
        ELSE IF isSensitiveQuery(query)
        THEN Error("SensitiveAccessBlocked", "access to sensitive MySQL metadata is not allowed")
        ELSE NoError

\* a slip: the blocked patterns are matched at the start of the statement only
AlterGate_PrefixOnly(connConfig, query) ==
    LET mismatch == ValidateQueryType(query, <<QueryTypeAlter>>)
        q == ToUpper(TrimSpace(query))
        hits == {i \in 1..Len(blockedPatterns) : HasPrefix(q, blockedPatterns[i])}
    IN  IF mismatch # NoError THEN mismatch
        ELSE IF connConfig.ReadOnly
        THEN Error("ReadOnlyViolation", "ALTER operations are not allowed")
        ELSE IF hits # {}
        THEN Error("DangerousOperationBlocked",
                   blockedPatterns[CHOOSE i \in hits : \A j \in hits : i <= j])
        ELSE IF isSensitiveQuery(query)
        THEN Error("SensitiveAccessBlocked", "access to sensitive MySQL metadata is not allowed")
        ELSE NoError

\* ExecuteAlter, lines 299-321
AlterGate(connConfig, query) ==
    LET mismatch == ValidateQueryType(query, <<QueryTypeAlter>>)
        q == ToUpper(TrimSpace(query))
        hits == {i \in 1..Len(blockedPatterns) : Contains(q, blockedPatterns[i])}
    IN  IF mismatch # NoError THEN mismatch
        ELSE IF connConfig.ReadOnly
        THEN Error("ReadOnlyViolation", "ALTER operations are not allowed")
        ELSE IF hits # {}
        THEN Error("DangerousOperationBlocked",
                   blockedPatterns[CHOOSE i \in hits : \A j \in hits : i <= j])
        ELSE IF isSensitiveQuery(query)
        THEN Error("SensitiveAccessBlocked", "access to sensitive MySQL metadata is not allowed")
        ELSE NoError

\* a slip: the unsafe mode bypasses the read-only check with the others
UnsafeGate_BypassAll(connConfig, query) == NoError

\* ExecuteUnsafe, lines 343-347
UnsafeGate(connConfig, query) ==
    LET queryType == DetectQueryType(query)
    IN  IF connConfig.ReadOnly /\ ~IsReadOnlyQueryType(queryType)
        THEN Error("ReadOnlyViolation", "write operations are not allowed (even with unsafe mode)")
        ELSE NoError

UnsafeWarning ==
    "UNSAFE EXECUTION: This query bypassed safety checks. Ensure you understand the implications."

\* a slip: the skipped dangerous check is taken from the query type, which
\* leaves ALTER out
SkippedCheckMsg_ByType(query) ==
    LET skippedChecks ==
            (IF IsDangerousQueryType(DetectQueryType(query))
             THEN <<"dangerous query blocking">> ELSE << >>)
            \o (IF isSensitiveQuery(query) THEN <<"sensitive query blocking">> ELSE << >>)
    IN  IF Len(skippedChecks) > 0 THEN Join(skippedChecks, ", ") ELSE "none"

\* ExecuteUnsafe, lines 349-361
SkippedCheckMsg(query) ==
    LET skippedChecks ==
            (IF isDangerousQuery(query) THEN <<"dangerous query blocking">> ELSE << >>)
            \o (IF isSensitiveQuery(query) THEN <<"sensitive query blocking">> ELSE << >>)
    IN  IF Len(skippedChecks) > 0 THEN Join(skippedChecks, ", ") ELSE "none"

\* ------------------------------------------------------------------------
\* The statements callers submit
\* ------------------------------------------------------------------------
RECURSIVE Repeat(_, _)
Repeat(c, k) == IF k = 0 THEN "" ELSE c \o Repeat(c, k - 1)

\* up to MaxLead white-space characters
Leads == {Repeat(c, k) : c \in {" ", "\t", "\n", VerticalTab}, k \in 0..MaxLead}

Keywords == {"SELECT", "INSERT", "UPDATE", "DELETE", "ALTER", "SHOW", "DESCRIBE",
             "EXPLAIN", "DROP", "TRUNCATE", "CREATE", "GRANT", "REVOKE", "SET", "USE"}

\* leading words: the keywords, DESC, some of them in other letter case, and
\* words the classifier does not know
HeadWords == Keywords \cup {"DESC", "desc", "select", "Describe", "dElEtE", "alter",
                            "Drop", "show", "explain", "WITH", "CALL", ""}

\* what follows the leading word
Rests == {" t", "\tt", "t", "", " "}

SensitivePhrases == {"SHOW GRANTS", "mysql.user", "User_Privileges",
                     "show processlist", "SHOW FULL PROCESSLIST"}
BlockedPhrases == {"DROP DATABASE p", "drop schema p", "TRUNCATE", "Create Database p",
                   "GRANT", "revoke"}
\* phrases close to the listed ones that no list contains
NearPhrases == {"SHOW  GRANTS", "mysql_user", "DROP TABLE p"}

Frames == {"SELECT * FROM ", "ALTER TABLE t; ", "INSERT INTO t ", "delete from ",
           "CREATE TABLE x AS SELECT * FROM ", ""}

Examples == {"UPDATE t SET x=1", "ALTER TABLE t ADD COLUMN y INT",
             "ALTER TABLE t; DROP DATABASE prod", "DELETE FROM t", "DROP TABLE t",
             "SELECT 1", "INSERT INTO t VALUES (1)"}

Statements ==
    {h \o r : h \in HeadWords, r \in Rests}
    \cup {l \o h \o " t" : l \in Leads, h \in HeadWords}
    \cup {f \o ph : f \in Frames, ph \in SensitivePhrases \cup BlockedPhrases \cup NearPhrases}
    \cup Examples

\* the allowedTypes lists ExecuteWrite is called with
AllowedLists == { << >>, <<QueryTypeInsert>>, <<QueryTypeUpdate>>, <<QueryTypeDelete>>,
                  <<QueryTypeInsert, QueryTypeUpdate, QueryTypeDelete>>,
                  <<QueryTypeAlter, QueryTypeDrop>> }

\* the allowed lists ValidateQueryType is called with: those, and the one of
\* the mysql_select tool
ValidateLists == AllowedLists \cup { <<QueryTypeSelect>> }

\* ------------------------------------------------------------------------
\* Operations
\* ------------------------------------------------------------------------
\* the record of a call: its arguments, how it took the pool lock, the
\* driver calls it made, the driver's answer to Query or Exec, and what it
\* returned
Call(op, connectionName, query, allowedTypes, err, calls, result, locked, driver) ==
    [op |-> op, conn |-> connectionName, query |-> query, allowed |-> allowedTypes,
     err |-> err, calls |-> calls, result |-> result, locked |-> locked,
     driver |-> driver]

\* no call is outstanding
Idle == Call("idle", "", "", << >>, NoError, << >>, Nil, {}, Nil)

\* a handler that is not running
\* quiet: the pool had no handle for the name when the call began, and since
\* then no probe or open has failed and the pool was not torn down
IdleCaller ==
    [pc |-> "idle", name |-> "", db |-> 0, quiet |-> FALSE, cancelled |-> FALSE, seen |-> 0]

\* NewManager: an empty map, a free mutex, no handler running
AtRest ==
    /\ handles = << >>
    /\ pool = [name \in DOMAIN config |-> 0]
    /\ mu = "free"
    /\ callers = [t \in Callers |-> IdleCaller]
    /\ teardown = [pc |-> "idle", closedUpTo |-> 0, todo |-> {}]

\* NewManager(cfg) on a configuration the loader accepted
Init ==
    /\ \E raw \in RawConfigs :
          /\ LoadConfig(raw).err = NoError
          /\ config = LoadConfig(raw).cfg
    /\ connections = [name \in DOMAIN config |-> "absent"]
    /\ last = Idle
    /\ AtRest

ExecuteQuery(connectionName, query) ==
    /\ last = Idle
    /\ \E gc \in GetConnectionResults(connectionName) :
        LET gate == QueryGate(gc.connConfig, query)
        IN  /\ connections' = gc.connections
            /\ UNCHANGED config
            /\ IF gc.err # NoError
               THEN last' = Call("ExecuteQuery", connectionName, query, << >>,
                                 gc.err, gc.calls, Nil, gc.locked, Nil)
               ELSE IF gate # NoError
               THEN last' = Call("ExecuteQuery", connectionName, query, << >>,
                                 gate, gc.calls, Nil, gc.locked, Nil)
               ELSE \E resp \in QueryResponses :
                       LET run == CollectQuery(gc.connConfig, query, resp)
                       IN  last' = Call("ExecuteQuery", connectionName, query, << >>,
                                        run.err, gc.calls \o run.calls, run.result,
                                        gc.locked, resp)

ExecuteWrite(connectionName, query, allowedTypes) ==
    /\ last = Idle
    /\ \E gc \in GetConnectionResults(connectionName) :
        LET gate == WriteGate(gc.connConfig, query, allowedTypes)
        IN  /\ connections' = gc.connections
            /\ UNCHANGED config
            /\ IF gc.err # NoError
               THEN last' = Call("ExecuteWrite", connectionName, query, allowedTypes,
                                 gc.err, gc.calls, Nil, gc.locked, Nil)
               ELSE IF gate # NoError
               THEN last' = Call("ExecuteWrite", connectionName, query, allowedTypes,
                                 gate, gc.calls, Nil, gc.locked, Nil)
               ELSE \E resp \in ExecResponses :
                       LET run == CollectExec(query, resp, TRUE)
                       IN  last' = Call("ExecuteWrite", connectionName, query,
                                        allowedTypes, run.err, gc.calls \o run.calls,
                                        run.result, gc.locked, resp)

ExecuteAlter(connectionName, query) ==
    /\ last = Idle
    /\ \E gc \in GetConnectionResults(connectionName) :
        LET gate == AlterGate(gc.connConfig, query)
        IN  /\ connections' = gc.connections
            /\ UNCHANGED config
            /\ IF gc.err # NoError
               THEN last' = Call("ExecuteAlter", connectionName, query, << >>,
                                 gc.err, gc.calls, Nil, gc.locked, Nil)
               ELSE IF gate # NoError
               THEN last' = Call("ExecuteAlter", connectionName, query, << >>,
                                 gate, gc.calls, Nil, gc.locked, Nil)
               ELSE \E resp \in ExecResponses :
                       LET run == CollectExec(query, resp, FALSE)
                       IN  last' = Call("ExecuteAlter", connectionName, query, << >>,
                                        run.err, gc.calls \o run.calls, run.result,
                                        gc.locked, resp)

\* a slip: WriteResult held by value, so it is always present
UnsafeResult_BothSet(queryResult, writeResult, query) ==
    [QueryResult |-> queryResult,
     WriteResult |-> IF writeResult = Nil THEN [RowsAffected |-> 0, LastInsertID |-> 0]
                     ELSE writeResult,
     Warning |-> UnsafeWarning, SkippedCheck |-> SkippedCheckMsg(query)]

\* the UnsafeResult of lines 363-435
UnsafeResult(queryResult, writeResult, query) ==
    [QueryResult |-> queryResult, WriteResult |-> writeResult,
     Warning |-> UnsafeWarning, SkippedCheck |-> SkippedCheckMsg(query)]

ExecuteUnsafe(connectionName, query) ==
    /\ last = Idle
    /\ \E gc \in GetConnectionResults(connectionName) :
        LET queryType == DetectQueryType(query)
            gate == UnsafeGate(gc.connConfig, query)
        IN  /\ connections' = gc.connections
            /\ UNCHANGED config
            /\ IF gc.err # NoError
               THEN last' = Call("ExecuteUnsafe", connectionName, query, << >>,
                                 gc.err, gc.calls, Nil, gc.locked, Nil)
               ELSE IF gate # NoError
               THEN last' = Call("ExecuteUnsafe", connectionName, query, << >>,
                                 gate, gc.calls, Nil, gc.locked, Nil)
               ELSE IF IsReadOnlyQueryType(queryType)
               THEN \E resp \in QueryResponses :
                       LET run == CollectQuery(gc.connConfig, query, resp)
                       IN  last' = Call("ExecuteUnsafe", connectionName, query, << >>,
                                        run.err, gc.calls \o run.calls,
                                        IF run.err # NoError THEN Nil
                                        ELSE UnsafeResult(run.result, Nil, query),
                                        gc.locked, resp)
               ELSE \E resp \in ExecResponses :
                       LET run == CollectExec(query, resp, TRUE)
                       IN  last' = Call("ExecuteUnsafe", connectionName, query, << >>,
                                        run.err, gc.calls \o run.calls,
                                        IF run.err # NoError THEN Nil
                                        ELSE UnsafeResult(Nil, run.result, query),
                                        gc.locked, resp)

\* Manager.Close: close every pooled handle and start an empty map
Close ==
    /\ last = Idle
    /\ connections' = [name \in DOMAIN connections |-> "absent"]
    /\ last' = Call("Close", "", "", << >>, NoError,
                    [i \in 1..Cardinality({n \in DOMAIN connections : connections[n] # "absent"})
                        |-> DriverCall("Close", "pooled")],
                    Nil, {"Lock"}, Nil)
    /\ UNCHANGED <<config, conc>>

\* a caller classifies a statement (DetectQueryType is exported)
Detect(query) ==
    /\ last = Idle
    /\ last' = Call("DetectQueryType", "", query, << >>, NoError, << >>,
                    [queryType |-> DetectQueryType(query)], {}, Nil)
    /\ UNCHANGED <<config, connections>>

\* a tool handler checks the statement's type (read.go line 39)
Validate(query, allowedTypes) ==
    /\ last = Idle
    /\ Len(allowedTypes) > 0
    /\ last' = Call("ValidateQueryType", "", query, allowedTypes,
                    ValidateQueryType(query, allowedTypes), << >>, Nil, {}, Nil)
    /\ UNCHANGED <<config, connections>>

\* the tool handler renders the outcome and returns; the next call can start
Respond ==
    /\ last # Idle
    /\ last' = Idle
    /\ UNCHANGED <<config, connections, conc>>

\* One call at a time: a caller starts an operation only when no call is
\* outstanding, with any connection name and statement.
CallExecuteQuery ==
    /\ last = Idle
    /\ UNCHANGED conc
    /\ \E c \in ConnectionNames, q \in Statements : ExecuteQuery(c, q)

CallExecuteWrite ==
    /\ last = Idle
    /\ UNCHANGED conc
    /\ \E c \in ConnectionNames, q \in Statements, a \in AllowedLists :
          ExecuteWrite(c, q, a)

CallExecuteAlter ==
    /\ last = Idle
    /\ UNCHANGED conc
    /\ \E c \in ConnectionNames, q \in Statements : ExecuteAlter(c, q)

CallExecuteUnsafe ==
    /\ last = Idle
    /\ UNCHANGED conc
    /\ \E c \in ConnectionNames, q \in Statements : ExecuteUnsafe(c, q)

CallDetect ==
    /\ last = Idle
    /\ UNCHANGED conc
    /\ \E q \in Statements : Detect(q)

CallValidate ==
    /\ last = Idle
    /\ UNCHANGED conc
    /\ \E q \in Statements, a \in ValidateLists : Validate(q, a)

Next ==
    \/ CallExecuteQuery
    \/ CallExecuteWrite
    \/ CallExecuteAlter
    \/ CallExecuteUnsafe
    \/ Close
    \/ CallDetect
    \/ CallValidate
    \/ Respond

Spec == Init /\ [][Next]_vars

\* ------------------------------------------------------------------------
\* The manager step by step (connection.go lines 30-101): handlers run
\* GetConnection and their statement at the same time, and main runs Close.
\* One action is one step between two points where another goroutine can
\* run: a mutex operation with the map access it protects, or one call on a
\* handle.
\* ------------------------------------------------------------------------
\* largest number of handles sql.Open returns in one run
MaxHandles == 2

\* the pool map as the one-call-at-a-time view sees it
PoolView(p, hs) ==
    [name \in DOMAIN p |->
        IF p[name] = 0 THEN "absent"
        ELSE IF hs[p[name]].closed THEN "closed" ELSE "open"]

\* db.Close() on handle h
CloseHandle(hs, h) == [hs EXCEPT ![h] = [@ EXCEPT !.closed = TRUE]]

\* the state of handle h as Ping sees it
HandleState(h) == IF handles[h].closed THEN "closed" ELSE "open"

\* a probe or an open failed, or the pool was torn down, while these calls
\* were in progress
Disturb(cs) == [t \in Callers |-> [cs[t] EXCEPT !.quiet = FALSE]]

\* the handler returns the error of the manager to the client (read.go
\* lines 44-46)
Failed == [IdleCaller EXCEPT !.pc = "failed"]

\* the handler returns the result of the manager to the client (read.go
\* lines 48-53)
Returned == [IdleCaller EXCEPT !.pc = "returned"]

\* lines 30-34: a handler calls GetConnection(name); for a name that is not
\* in the registry it returns the error at once
Begin(t, name) ==
    /\ callers[t].pc = "idle"
    /\ callers' = [callers EXCEPT ![t] =
          IF name \notin DOMAIN config THEN Failed
          ELSE [pc |-> "rlock", name |-> name, db |-> 0, quiet |-> (pool[name] = 0),
                cancelled |-> FALSE, seen |-> teardown.closedUpTo]]
    /\ UNCHANGED <<config, connections, last, handles, pool, mu, teardown>>

\* the callers that hold the read lock of m.mu: they are between RLock
\* (line 36) and RUnlock (line 38); mu names the holder of the write lock
Readers == {t \in Callers : callers[t].pc = "read"}

\* line 36: m.mu.RLock() is granted; it waits while the write lock is held.
\* A caller at pc "lock" and a teardown at pc "lock" are about to call
\* Lock or are waiting inside it, so a read lock granted beside them is a
\* read lock granted before their call of Lock.
RLock(t) ==
    /\ callers[t].pc = "rlock"
    /\ mu = "free"
    /\ callers' = [callers EXCEPT ![t] = [@ EXCEPT !.pc = "read"]]
    /\ UNCHANGED <<config, connections, last, handles, pool, mu, teardown>>

\* lines 37-38: read the map under the read lock, RUnlock
ReadPool(t) ==
    /\ callers[t].pc = "read"
    /\ callers' = [callers EXCEPT ![t] =
          [@ EXCEPT !.db = pool[callers[t].name],
                    !.pc = IF pool[callers[t].name] # 0 THEN "ping1" ELSE "lock"]]
    /\ UNCHANGED <<config, connections, last, handles, pool, mu, teardown>>

\* line 42: Ping of the pooled handle, outside the lock
ProbePooled(t, alive) ==
    /\ callers[t].pc = "ping1"
    /\ IF Ping(HandleState(callers[t].db), alive)
       THEN callers' = [callers EXCEPT ![t] = [@ EXCEPT !.pc = "ret1"]]
       ELSE callers' = [Disturb(callers) EXCEPT ![t] = [@ EXCEPT !.pc = "close1",
                                                                !.quiet = FALSE]]
    /\ UNCHANGED <<config, connections, last, handles, pool, mu, teardown>>

\* line 43: the pooled handle answered: return it
ReturnPooled(t) ==
    /\ callers[t].pc = "ret1"
    /\ callers' = [callers EXCEPT ![t] = [@ EXCEPT !.pc = "got"]]
    /\ UNCHANGED <<config, connections, last, handles, pool, mu, teardown>>

\* line 46: the handle did not answer: Close it, outside the lock
CloseDead(t) ==
    /\ callers[t].pc = "close1"
    /\ handles' = CloseHandle(handles, callers[t].db)
    /\ callers' = [callers EXCEPT ![t] = [@ EXCEPT !.pc = "lock"]]
    /\ connections' = PoolView(pool, handles')
    /\ UNCHANGED <<config, last, pool, mu, teardown>>

\* a slip: the map is not read again under the write lock
LockAndRecheck_NoRecheck(t) ==
    /\ callers[t].pc = "lock"
    /\ mu = "free"
    /\ Readers = {}
    /\ mu' = t
    /\ callers' = [callers EXCEPT ![t] = [@ EXCEPT !.db = 0, !.pc = "open"]]
    /\ UNCHANGED <<config, connections, last, handles, pool, teardown>>

\* lines 50-54: Lock is granted, when nobody holds the write lock or a read
\* lock, and the map is read again
LockAndRecheck(t) ==
    /\ callers[t].pc = "lock"
    /\ mu = "free"
    /\ Readers = {}
    /\ mu' = t
    /\ callers' = [callers EXCEPT ![t] =
          [@ EXCEPT !.db = pool[callers[t].name],
                    !.pc = IF pool[callers[t].name] # 0 THEN "ping2" ELSE "open"]]
    /\ UNCHANGED <<config, connections, last, handles, pool, teardown>>

\* lines 55-57: Ping of the handle found under the write lock; on success
\* return it (the deferred Unlock runs)
ProbeRechecked(t, alive) ==
    /\ callers[t].pc = "ping2"
    /\ IF Ping(HandleState(callers[t].db), alive)
       THEN /\ callers' = [callers EXCEPT ![t] = [@ EXCEPT !.pc = "got"]]
            /\ mu' = "free"
       ELSE /\ callers' = [Disturb(callers) EXCEPT ![t] = [@ EXCEPT !.pc = "close2",
                                                                   !.quiet = FALSE]]
            /\ mu' = mu
    /\ UNCHANGED <<config, connections, last, handles, pool, teardown>>

\* line 58
CloseRechecked(t) ==
    /\ callers[t].pc = "close2"
    /\ handles' = CloseHandle(handles, callers[t].db)
    /\ callers' = [callers EXCEPT ![t] = [@ EXCEPT !.pc = "open"]]
    /\ connections' = PoolView(pool, handles')
    /\ UNCHANGED <<config, last, pool, mu, teardown>>

\* lines 61-68: sql.Open and the pool settings of the new handle; when Open
\* fails GetConnection returns the error (the deferred Unlock runs)
OpenNew(t, ok) ==
    /\ callers[t].pc = "open"
    /\ IF ok
       THEN /\ Len(handles) < MaxHandles
            /\ handles' = Append(handles, [name |-> callers[t].name, closed |-> FALSE])
            /\ callers' = [callers EXCEPT ![t] =
                  [@ EXCEPT !.db = Len(handles) + 1, !.pc = "ping3"]]
            /\ mu' = mu
       ELSE /\ callers' = [Disturb(callers) EXCEPT ![t] = Failed]
            /\ mu' = "free"
            /\ handles' = handles
    /\ UNCHANGED <<config, connections, last, pool, teardown>>

\* a slip: the new handle that does not answer is dropped without Close
ProbeNew_NoClose(t, alive) ==
    /\ callers[t].pc = "ping3"
    /\ IF Ping("open", alive)
       THEN /\ pool' = [pool EXCEPT ![callers[t].name] = callers[t].db]
            /\ handles' = handles
            /\ callers' = [callers EXCEPT ![t] = [@ EXCEPT !.pc = "got"]]
       ELSE /\ pool' = pool
            /\ handles' = handles
            /\ callers' = [Disturb(callers) EXCEPT ![t] = Failed]
    /\ mu' = "free"
    /\ connections' = PoolView(pool', handles')
    /\ UNCHANGED <<config, last, teardown>>

\* lines 71-77: Ping of the new handle; store it and return it, or Close it
\* and return the error
ProbeNew(t, alive) ==
    /\ callers[t].pc = "ping3"
    /\ IF Ping("open", alive)
       THEN /\ pool' = [pool EXCEPT ![callers[t].name] = callers[t].db]
            /\ handles' = handles
            /\ callers' = [callers EXCEPT ![t] = [@ EXCEPT !.pc = "got"]]
       ELSE /\ pool' = pool
            /\ handles' = CloseHandle(handles, callers[t].db)
            /\ callers' = [Disturb(callers) EXCEPT ![t] = Failed]
    /\ mu' = "free"
    /\ connections' = PoolView(pool', handles')
    /\ UNCHANGED <<config, last, teardown>>

\* lines 131-146: the handler has its handle; a check of the execution mode
\* refuses the statement and the error is returned with no call on the
\* handle, or db.Query or db.Exec is called on it; on a closed handle they
\* fail at once and the handler returns the error
IssueStatement(t, refused) ==
    /\ callers[t].pc = "got"
    /\ callers' = [callers EXCEPT ![t] =
          IF refused THEN Failed
          ELSE IF handles[callers[t].db].closed THEN Failed
          ELSE [@ EXCEPT !.pc = "use"]]
    /\ UNCHANGED <<config, connections, last, handles, pool, mu, teardown>>

\* the statement in flight comes back from the server, with rows or a
\* count (ok) or with an error of the driver; db.Query and db.Exec are
\* called without a context (lines 146 and 278), so the outcome is the
\* driver's whatever happened to the context of the handler
FinishStatement(t, ok) ==
    /\ callers[t].pc = "use"
    /\ callers' = [callers EXCEPT ![t] = IF ok THEN Returned ELSE Failed]
    /\ UNCHANGED <<config, connections, last, handles, pool, mu, teardown>>

\* the handler has returned its answer; the goroutine can serve the next
\* request
Return(t) ==
    /\ callers[t].pc \in {"returned", "failed"}
    /\ callers' = [callers EXCEPT ![t] = IdleCaller]
    /\ UNCHANGED <<config, connections, last, handles, pool, mu, teardown>>

\* the pcs at which a call of the driver made for the request is in flight:
\* the three probes and the statement
InFlight == {"ping1", "ping2", "ping3", "use"}

\* the client cancels the request while a driver call made for it is in
\* flight: the ctx of the handler (read.go line 27) is cancelled; the
\* handler passes ctx to nothing, so no step reads it
CancelContext(t) ==
    /\ callers[t].pc \in InFlight
    /\ ~callers[t].cancelled
    /\ callers' = [callers EXCEPT ![t] = [@ EXCEPT !.cancelled = TRUE]]
    /\ UNCHANGED <<config, connections, last, handles, pool, mu, teardown>>

\* main calls manager.Close(): line 94, m.mu.Lock() is called
CloseCall ==
    /\ teardown.pc = "idle"
    /\ teardown' = [teardown EXCEPT !.pc = "lock"]
    /\ UNCHANGED <<config, connections, last, handles, pool, mu, callers>>

\* line 94: the write lock is granted, when nobody holds the write lock or
\* a read lock; todo holds the names whose handle
\* the loop of line 97 has still to visit
CloseAcquire ==
    /\ teardown.pc = "lock"
    /\ mu = "free"
    /\ Readers = {}
    /\ mu' = "main"
    /\ teardown' = [teardown EXCEPT !.pc = "held",
                                    !.todo = {name \in DOMAIN pool : pool[name] # 0}]
    /\ UNCHANGED <<config, connections, last, handles, pool, callers>>

\* lines 97-99: one turn of the loop, db.Close() on the handle of one map
\* entry; the map is ranged over in any order
CloseOne(name) ==
    /\ teardown.pc = "held"
    /\ name \in teardown.todo
    /\ handles' = CloseHandle(handles, pool[name])
    /\ teardown' = [teardown EXCEPT !.todo = @ \ {name}]
    /\ callers' = Disturb(callers)
    /\ connections' = PoolView(pool, handles')
    /\ UNCHANGED <<config, last, pool, mu>>

\* a slip: the map keeps its entries
CloseRun_KeepMap ==
    /\ teardown.pc = "held"
    /\ teardown.todo = {}
    /\ pool' = pool
    /\ mu' = "free"
    /\ teardown' = [pc |-> "idle", closedUpTo |-> Len(handles), todo |-> {}]
    /\ callers' = Disturb(callers)
    /\ connections' = PoolView(pool', handles)
    /\ UNCHANGED <<config, last, handles>>

\* line 100 and the deferred Unlock, after the loop: start an empty map and
\* release the lock; closedUpTo remembers how many handles existed
CloseRun ==
    /\ teardown.pc = "held"
    /\ teardown.todo = {}
    /\ pool' = [name \in DOMAIN pool |-> 0]
    /\ mu' = "free"
    /\ teardown' = [pc |-> "idle", closedUpTo |-> Len(handles), todo |-> {}]
    /\ callers' = Disturb(callers)
    /\ connections' = PoolView(pool', handles)
    /\ UNCHANGED <<config, last, handles>>

StepBegin == \E t \in Callers, name \in DOMAIN config \cup {"ghost"} : Begin(t, name)
StepRLock == \E t \in Callers : RLock(t)
StepReadPool == \E t \in Callers : ReadPool(t)
StepReturnPooled == \E t \in Callers : ReturnPooled(t)
StepProbePooled == \E t \in Callers, alive \in BOOLEAN : ProbePooled(t, alive)
StepCloseDead == \E t \in Callers : CloseDead(t)
StepLockAndRecheck == \E t \in Callers : LockAndRecheck(t)
StepProbeRechecked == \E t \in Callers, alive \in BOOLEAN : ProbeRechecked(t, alive)
StepCloseRechecked == \E t \in Callers : CloseRechecked(t)
StepOpenNew == \E t \in Callers, ok \in BOOLEAN : OpenNew(t, ok)
StepProbeNew == \E t \in Callers, alive \in BOOLEAN : ProbeNew(t, alive)
StepIssueStatement == \E t \in Callers, refused \in BOOLEAN : IssueStatement(t, refused)
StepFinishStatement == \E t \in Callers, ok \in BOOLEAN : FinishStatement(t, ok)
StepCloseOne == \E name \in DOMAIN config : CloseOne(name)
StepReturn == \E t \in Callers : Return(t)
StepCancelContext == \E t \in Callers : CancelContext(t)

\* NewManager on the configuration with two connections
InitInterleaved ==
    /\ config = LoadConfig(TwoConnections).cfg
    /\ connections = [name \in DOMAIN config |-> "absent"]
    /\ last = Idle
    /\ AtRest

NextInterleaved ==
    \/ StepBegin
    \/ StepRLock
    \/ StepReadPool
    \/ StepProbePooled
    \/ StepReturnPooled
    \/ StepCloseDead
    \/ StepLockAndRecheck
    \/ StepProbeRechecked
    \/ StepCloseRechecked
    \/ StepOpenNew
    \/ StepProbeNew
    \/ StepIssueStatement
    \/ StepFinishStatement
    \/ StepReturn
    \/ StepCancelContext
    \/ CloseCall
    \/ CloseAcquire
    \/ StepCloseOne
    \/ CloseRun

\* handlers and teardown interleaved in every order
SpecInterleaved == InitInterleaved /\ [][NextInterleaved]_vars

\* ------------------------------------------------------------------------
\* Vocabulary of the properties
\* ------------------------------------------------------------------------
\* the statement of the last call reached the driver as a Query or an Exec
SentToDriver ==
    \E i \in 1..Len(last.calls) : last.calls[i].fn \in {"Query", "Exec"}

CalledDriver(fn) == \E i \in 1..Len(last.calls) : last.calls[i].fn = fn

\* GetConnection gave the last call a handle and a policy
Resolved == last.err.kind \notin {"UnknownConnection", "ConnectionFailure"}

OnReadOnlyConnection == last.conn \in DOMAIN config /\ config[last.conn].ReadOnly
OnWritableConnection == last.conn \in DOMAIN config /\ ~config[last.conn].ReadOnly

\* the statement as the gates see it: upper-cased and trimmed
Normal(query) == TrimSpace(ToUpper(query))

BeginsWithAny(query, words) ==
    LET q == Normal(query) IN \E w \in words : HasPrefix(q, w)

\* the upper-cased statement contains one of the phrases anywhere
ContainsAny(query, phrases) ==
    LET q == ToUpper(query) IN \E ph \in phrases : Contains(q, ph)

SensitiveList == {"SHOW GRANTS", "MYSQL.USER", "USER_PRIVILEGES", "SHOW PROCESSLIST",
                  "SHOW FULL PROCESSLIST"}
AlterBlocklist == {"DROP DATABASE", "DROP SCHEMA", "TRUNCATE", "CREATE DATABASE",
                   "GRANT", "REVOKE"}

\* ------------------------------------------------------------------------
\* C1. ExecuteUnsafe on a read-only connection, for a statement whose
\* detected type is not SELECT, SHOW, DESCRIBE or EXPLAIN, fails and sends
\* neither Query nor Exec to the driver; once the connection is resolved the
\* error is the read-only violation, also for statements that are dangerous
\* or sensitive.
\* ------------------------------------------------------------------------
C1_UnsafeKeepsReadOnly ==
    ( /\ last.op = "ExecuteUnsafe"
      /\ OnReadOnlyConnection
      /\ ~IsReadOnlyQueryType(DetectQueryType(last.query)) )
    => /\ last.err # NoError
       /\ last.result = Nil
       /\ ~SentToDriver
       /\ Resolved => last.err.kind = "ReadOnlyViolation"

\* reached: unsafe DELETE on a resolved read-only connection, refused
C1_Witness ==
    /\ last.op = "ExecuteUnsafe"
    /\ OnReadOnlyConnection
    /\ last.query = "DELETE FROM t"
    /\ last.err.kind = "ReadOnlyViolation"
    /\ CalledDriver("Ping")

\* ------------------------------------------------------------------------
\* C2 as stated: ExecuteQuery on a read-only connection, for every statement
\* whose detected type is not read-only (UNKNOWN included), fails with the
\* read-only violation and never passes the statement to the driver.
\* ------------------------------------------------------------------------
C2_Original ==
    ( /\ last.op = "ExecuteQuery"
      /\ OnReadOnlyConnection
      /\ ~IsReadOnlyQueryType(DetectQueryType(last.query)) )
    => /\ last.err # NoError
       /\ ~SentToDriver
       /\ Resolved => last.err.kind = "ReadOnlyViolation"

\* C2 amended: the same for every statement whose detected type is not
\* read-only and whose trimmed, upper-cased text does not begin with DESC;
\* a statement that begins with DESC passes the read-only check of
\* ExecuteQuery whatever its detected type, and reaches the driver unless it
\* is sensitive.
C2_QueryKeepsReadOnly ==
    /\ ( /\ last.op = "ExecuteQuery"
         /\ OnReadOnlyConnection
         /\ ~IsReadOnlyQueryType(DetectQueryType(last.query))
         /\ ~HasPrefix(Normal(last.query), "DESC") )
       => /\ last.err # NoError
          /\ ~SentToDriver
          /\ Resolved => last.err.kind = "ReadOnlyViolation"
    /\ ( /\ last.op = "ExecuteQuery"
         /\ OnReadOnlyConnection
         /\ Resolved
         /\ HasPrefix(Normal(last.query), "DESC") )
       => /\ last.err.kind # "ReadOnlyViolation"
          /\ SentToDriver <=> ~ContainsAny(last.query, SensitiveList)

\* reached: an UPDATE refused on a resolved read-only connection
C2_Witness ==
    /\ last.op = "ExecuteQuery"
    /\ OnReadOnlyConnection
    /\ last.query = "UPDATE t SET x=1"
    /\ last.err.kind = "ReadOnlyViolation"
    /\ ~SentToDriver

\* ------------------------------------------------------------------------
\* C3. On a read-only connection ExecuteWrite, with any allowedTypes, and
\* ExecuteAlter fail for every statement, return no WriteResult and never
\* call Exec; once the connection is resolved the error is a query-type
\* mismatch or the read-only violation.
\* ------------------------------------------------------------------------
C3_WritesRefusedOnReadOnly ==
    ( /\ last.op \in {"ExecuteWrite", "ExecuteAlter"}
      /\ OnReadOnlyConnection )
    => /\ last.err # NoError
       /\ last.result = Nil
       /\ ~CalledDriver("Exec")
       /\ ~CalledDriver("Query")
       /\ Resolved => last.err.kind \in {"QueryTypeMismatch", "ReadOnlyViolation"}

\* reached: an INSERT with no allowedTypes refused as read-only
C3_Witness ==
    /\ last.op = "ExecuteWrite"
    /\ last.allowed = << >>
    /\ OnReadOnlyConnection
    /\ last.query = "INSERT INTO t VALUES (1)"
    /\ last.err.kind = "ReadOnlyViolation"

\* ------------------------------------------------------------------------
\* C4. On a connection that is not read-only, ExecuteQuery and ExecuteWrite
\* never pass to the driver a statement that begins (trimmed, upper-cased)
\* with DROP, TRUNCATE, CREATE, GRANT or REVOKE, nor ExecuteQuery one that
\* begins with ALTER; each such call fails.
\* ------------------------------------------------------------------------
C4_DangerousNeverSent ==
    ( /\ last.op \in {"ExecuteQuery", "ExecuteWrite"}
      /\ OnWritableConnection
      /\ \/ BeginsWithAny(last.query, {"DROP", "TRUNCATE", "CREATE", "GRANT", "REVOKE"})
         \/ last.op = "ExecuteQuery" /\ BeginsWithAny(last.query, {"ALTER"}) )
    => /\ last.err # NoError
       /\ last.result = Nil
       /\ ~SentToDriver
       /\ Resolved => last.err.kind \in {"DangerousOperationBlocked", "QueryTypeMismatch"}
       /\ (Resolved /\ last.op = "ExecuteQuery")
             => last.err.kind = "DangerousOperationBlocked"

\* reached: ExecuteWrite without allowedTypes refuses a DROP as dangerous
C4_Witness ==
    /\ last.op = "ExecuteWrite"
    /\ last.allowed = << >>
    /\ OnWritableConnection
    /\ last.query = "DROP TABLE t"
    /\ last.err.kind = "DangerousOperationBlocked"
    /\ ~SentToDriver

\* ------------------------------------------------------------------------
\* C5. ExecuteAlter on a connection that is not read-only passes a statement
\* to the driver exactly when its detected type is ALTER, its upper-cased
\* text contains none of the blocked phrases and it is not sensitive; a
\* statement that begins with ALTER and embeds a blocked phrase fails with
\* the dangerous-operation error and is not executed.
\* ------------------------------------------------------------------------
C5_AlterGate ==
    ( /\ last.op = "ExecuteAlter"
      /\ OnWritableConnection
      /\ Resolved )
    => /\ SentToDriver <=>
             /\ DetectQueryType(last.query) = QueryTypeAlter
             /\ ~ContainsAny(last.query, AlterBlocklist)
             /\ ~ContainsAny(last.query, SensitiveList)
       /\ SentToDriver => CalledDriver("Exec") /\ ~CalledDriver("Query")
       /\ (HasPrefix(Normal(last.query), "ALTER") /\ ContainsAny(last.query, AlterBlocklist))
             => /\ last.err.kind = "DangerousOperationBlocked"
                /\ last.result = Nil

\* reached: the ALTER that smuggles DROP DATABASE is refused as dangerous
C5_Witness ==
    /\ last.op = "ExecuteAlter"
    /\ OnWritableConnection
    /\ last.query = "ALTER TABLE t; DROP DATABASE prod"
    /\ last.err.kind = "DangerousOperationBlocked"
    /\ ~SentToDriver

\* ------------------------------------------------------------------------
\* C6. ExecuteQuery, ExecuteWrite and ExecuteAlter, on any connection, never
\* pass to the driver a statement whose upper-cased text contains SHOW
\* GRANTS, MYSQL.USER, USER_PRIVILEGES, SHOW PROCESSLIST or SHOW FULL
\* PROCESSLIST at any position.
\* ------------------------------------------------------------------------
C6_SensitiveNeverSent ==
    ( /\ last.op \in {"ExecuteQuery", "ExecuteWrite", "ExecuteAlter"}
      /\ ContainsAny(last.query, SensitiveList) )
    => /\ ~SentToDriver
       /\ last.err # NoError
       /\ last.result = Nil

\* reached: a SELECT that reads mysql.user in a later position is refused
C6_Witness ==
    /\ last.op = "ExecuteQuery"
    /\ last.query = "SELECT * FROM mysql.user"
    /\ last.err.kind = "SensitiveAccessBlocked"
    /\ ~SentToDriver

\* ------------------------------------------------------------------------
\* C7. With max_rows = m >= 1 and a driver result set of n rows that the
\* driver delivers without a fault, ExecuteQuery and the read branch of
\* ExecuteUnsafe return the first min(n, m) rows in driver order and
\* Count = min(n, m).
\* ------------------------------------------------------------------------
MinOf(a, b) == IF a <= b THEN a ELSE b

\* the QueryResult the last call returned, if any
ReturnedQueryResult ==
    IF last.op = "ExecuteQuery" THEN last.result
    ELSE IF last.op = "ExecuteUnsafe" /\ last.result # Nil THEN last.result.QueryResult
    ELSE Nil

\* row is the driver's i-th row: each entry carries a value of that row
IsDriverRow(row, i) == \A col \in DOMAIN row : row[col].v \div 10 = i

C7_RowCap ==
    ( /\ last.op \in {"ExecuteQuery", "ExecuteUnsafe"}
      /\ CalledDriver("Query")
      /\ last.driver.fault = "none"
      /\ config[last.conn].MaxRows >= 1 )
    => LET qr == ReturnedQueryResult
           k == MinOf(last.driver.n, config[last.conn].MaxRows)
       IN  /\ last.err = NoError
           /\ qr # Nil
           /\ qr.Count = k
           /\ Len(qr.Rows) = k
           /\ \A i \in 1..k : IsDriverRow(qr.Rows[i], i)

\* reached: max_rows 2 against a larger result set gives 2 rows, count 2
C7_Witness ==
    /\ last.op = "ExecuteQuery"
    /\ CalledDriver("Query")
    /\ last.driver.fault = "none"
    /\ config[last.conn].MaxRows = 2
    /\ last.driver.n > 2
    /\ last.result.Count = 2
    /\ Len(last.result.Rows) = 2

\* ------------------------------------------------------------------------
\* C8. What the normal modes would do with the statement of the last call on
\* its connection: the kinds of error ExecuteQuery, ExecuteWrite (with each
\* allowedTypes list) and ExecuteAlter return from their checks ("nil" when
\* the statement would be executed).
\* ------------------------------------------------------------------------
NormalModeKinds(connConfig, query) ==
    {QueryGate(connConfig, query).kind, AlterGate(connConfig, query).kind}
    \cup {WriteGate(connConfig, query, a).kind : a \in AllowedLists}

ListsSkipped(check) == Contains(last.result.SkippedCheck, check)

\* ExecuteUnsafe returned a result: the statement was executed
UnsafeExecuted == last.op = "ExecuteUnsafe" /\ last.err = NoError

\* C8 as stated: for every statement ExecuteUnsafe executes, SkippedCheck
\* lists "dangerous query blocking" exactly when some normal mode would have
\* rejected the statement as dangerous on that connection, lists "sensitive
\* query blocking" exactly when some normal mode would have rejected it as
\* sensitive, and is "none" exactly when neither applies; on a connection
\* that is not read-only neither makes ExecuteUnsafe fail.
C8_Original ==
    /\ UnsafeExecuted =>
          LET kinds == NormalModeKinds(config[last.conn], last.query)
          IN  /\ ListsSkipped("dangerous query blocking")
                    <=> "DangerousOperationBlocked" \in kinds
              /\ ListsSkipped("sensitive query blocking")
                    <=> "SensitiveAccessBlocked" \in kinds
              /\ last.result.SkippedCheck = "none"
                    <=> /\ "DangerousOperationBlocked" \notin kinds
                        /\ "SensitiveAccessBlocked" \notin kinds
    /\ (last.op = "ExecuteUnsafe" /\ OnWritableConnection /\ Resolved)
          => last.err.kind \in {"nil", "ExecutionFailure", "ResultDecodeFailure"}

\* C8 amended: "dangerous query blocking" is listed exactly when some normal
\* mode would have rejected the statement as dangerous on that connection;
\* "sensitive query blocking" is listed exactly when the upper-cased text
\* contains a sensitive phrase: that is whenever some normal mode would have
\* rejected the statement as sensitive, and also for a sensitive statement
\* that begins with DROP, TRUNCATE, CREATE, GRANT or REVOKE, which every
\* normal mode rejects at an earlier check (dangerous or type mismatch);
\* SkippedCheck is "none" exactly when nothing is listed; on a connection
\* that is not read-only ExecuteUnsafe fails only when the driver fails.
C8_SkippedChecks ==
    /\ UnsafeExecuted =>
          LET kinds == NormalModeKinds(config[last.conn], last.query)
              listsDangerous == ListsSkipped("dangerous query blocking")
              listsSensitive == ListsSkipped("sensitive query blocking")
          IN  /\ listsDangerous <=> "DangerousOperationBlocked" \in kinds
              /\ listsSensitive <=> ContainsAny(last.query, SensitiveList)
              /\ "SensitiveAccessBlocked" \in kinds => listsSensitive
              /\ (listsSensitive /\ "SensitiveAccessBlocked" \notin kinds)
                    => /\ BeginsWithAny(last.query,
                                        {"DROP", "TRUNCATE", "CREATE", "GRANT", "REVOKE"})
                       /\ kinds \subseteq {"DangerousOperationBlocked", "QueryTypeMismatch"}
              /\ last.result.SkippedCheck = "none" <=> ~listsDangerous /\ ~listsSensitive
              /\ last.result.SkippedCheck \in
                    {"none", "dangerous query blocking", "sensitive query blocking",
                     "dangerous query blocking, sensitive query blocking"}
    /\ (last.op = "ExecuteUnsafe" /\ OnWritableConnection /\ Resolved)
          => last.err.kind \in {"nil", "ExecutionFailure", "ResultDecodeFailure"}

\* reached: unsafe DROP on a writable connection succeeds and reports the
\* skipped dangerous check
C8_Witness ==
    /\ UnsafeExecuted
    /\ OnWritableConnection
    /\ last.query = "DROP TABLE t"
    /\ last.result.SkippedCheck = "dangerous query blocking"
    /\ CalledDriver("Exec")

\* ------------------------------------------------------------------------
\* C9. An UnsafeResult returned without error has exactly one of QueryResult
\* and WriteResult: QueryResult, obtained by db.Query, exactly when the
\* detected type is SELECT, SHOW, DESCRIBE or EXPLAIN, otherwise WriteResult,
\* obtained by db.Exec; the Warning is always the same text.
\* ------------------------------------------------------------------------
C9_ExactlyOneResult ==
    UnsafeExecuted =>
        LET isRead == DetectQueryType(last.query) \in
                        {QueryTypeSelect, QueryTypeShow, QueryTypeDescribe, QueryTypeExplain}
            hasQuery == last.result.QueryResult # Nil
            hasWrite == last.result.WriteResult # Nil
        IN  /\ hasQuery <=> ~hasWrite
            /\ hasQuery <=> isRead
            /\ hasQuery => CalledDriver("Query") /\ ~CalledDriver("Exec")
            /\ hasWrite => CalledDriver("Exec") /\ ~CalledDriver("Query")
            /\ last.result.Warning =
                  "UNSAFE EXECUTION: This query bypassed safety checks. Ensure you understand the implications."

\* reached: an unsafe SELECT returns a QueryResult and no WriteResult
C9_Witness ==
    /\ UnsafeExecuted
    /\ last.query = "SELECT 1"
    /\ last.result.QueryResult # Nil
    /\ last.result.WriteResult = Nil
    /\ CalledDriver("Query")

\* ------------------------------------------------------------------------
\* C10. A statement that begins (trimmed, upper-cased) with "DESC " is
\* detected as DESCRIBE, never DELETE; one that begins with DESCRIBE as
\* DESCRIBE; one that begins with DELETE as DELETE; and this is so for every
\* order of the rows of the prefix table.
\* ------------------------------------------------------------------------
\* the table with rows i and j exchanged
SwapRows(table, i, j) ==
    [k \in 1..Len(table) |-> IF k = i THEN table[j] ELSE IF k = j THEN table[i] ELSE table[k]]

\* orders of the prefix table: every exchange of two rows, and the reverse
TableOrders ==
    {SwapRows(prefixMap, i, j) : i \in 1..Len(prefixMap), j \in 1..Len(prefixMap)}
    \cup {[k \in 1..Len(prefixMap) |-> prefixMap[Len(prefixMap) + 1 - k]]}

\* the type the claim gives to a statement, 0 - 1 when it gives none
ExpectedDescDelete(query) ==
    LET q == Normal(query)
    IN  IF HasPrefix(q, "DESC ") \/ HasPrefix(q, "DESCRIBE") THEN QueryTypeDescribe
        ELSE IF HasPrefix(q, "DELETE") THEN QueryTypeDelete
        ELSE 0 - 1

C10_DescNotDelete ==
    ( /\ last.op = "DetectQueryType"
      /\ ExpectedDescDelete(last.query) # 0 - 1 )
    => /\ last.result.queryType = ExpectedDescDelete(last.query)
       /\ \A table \in TableOrders :
             DetectWith(table, last.query) = ExpectedDescDelete(last.query)
       \* every row that matches carries that type, so no order changes it
       /\ \A i \in 1..Len(prefixMap) :
             HasPrefix(Normal(last.query), prefixMap[i].prefix)
                => prefixMap[i].queryType = ExpectedDescDelete(last.query)

\* reached: a lower-case desc after white space is DESCRIBE
C10_Witness ==
    /\ last.op = "DetectQueryType"
    /\ last.query = " desc t"
    /\ last.result.queryType = QueryTypeDescribe

\* ------------------------------------------------------------------------
\* C11. Vocabulary: the leading token of a statement, and the keywords.
\* ------------------------------------------------------------------------
\* the maximal run of characters that are not white space, from the start
LeadingToken(q) ==
    LET stops == {i \in 1..Len(q) : IsSpace(CharAt(q, i))}
    IN  IF stops = {} THEN q
        ELSE SubSeq(q, 1, (CHOOSE i \in stops : \A j \in stops : i <= j) - 1)

\* the keywords the classifier recognizes: the labels of the types, and DESC
RecognizedKeywords ==
    {GetQueryTypeLabel(t) : t \in QueryType \ {QueryTypeUnknown}} \cup {"DESC"}

\* the types whose keyword the trimmed, upper-cased statement begins with
\* (DESC counts only when a space follows it)
TypesOfPrefix(query) ==
    LET q == Normal(query)
    IN  {t \in QueryType \ {QueryTypeUnknown} : HasPrefix(q, GetQueryTypeLabel(t))}
        \cup (IF HasPrefix(q, "DESC ") THEN {QueryTypeDescribe} ELSE {})

\* C11 as stated: DetectQueryType yields one tag and no error, and the tag
\* is UNKNOWN whenever the leading token of the trimmed, upper-cased
\* statement is not one of the recognized keywords.
C11_Original ==
    last.op = "DetectQueryType" =>
        /\ last.err = NoError
        /\ last.result.queryType \in QueryType
        /\ LeadingToken(Normal(last.query)) \notin RecognizedKeywords
              => last.result.queryType = QueryTypeUnknown

\* C11 amended: DetectQueryType yields one tag and no error; the tag is
\* decided by the beginning of the trimmed, upper-cased text, not by its
\* leading token: it is the type of the keyword the text begins with, also
\* when more characters follow the keyword in the same token, DESCRIBE when
\* the text begins with DESC and a space, and UNKNOWN exactly when the text
\* begins with none of these (DESC alone or followed by a tab included).
C11_PrefixDecides ==
    last.op = "DetectQueryType" =>
        /\ last.err = NoError
        /\ last.result.queryType \in QueryType
        /\ TypesOfPrefix(last.query) = {}
              <=> last.result.queryType = QueryTypeUnknown
        /\ TypesOfPrefix(last.query) # {}
              => TypesOfPrefix(last.query) = {last.result.queryType}
        /\ LeadingToken(Normal(last.query)) \in RecognizedKeywords \ {"DESC"}
              => GetQueryTypeLabel(last.result.queryType)
                    = LeadingToken(Normal(last.query))

\* reached: a statement whose leading token is no keyword is UNKNOWN
C11_Witness ==
    /\ last.op = "DetectQueryType"
    /\ last.query = "\tCALL t"
    /\ LeadingToken(Normal(last.query)) = "CALL"
    /\ last.result.queryType = QueryTypeUnknown
    /\ last.err = NoError

\* ------------------------------------------------------------------------
\* C12. For a statement made of leading white space, one keyword of the
\* closed set in any letter case, a space and further text, the detected
\* type is read-only exactly when the keyword is SELECT, SHOW, DESCRIBE or
\* EXPLAIN.
\* ------------------------------------------------------------------------
C12_ReadOnlyKeywords ==
    last.op = "DetectQueryType" =>
        \A k \in Keywords :
            ( /\ HasPrefix(Normal(last.query), k \o " ")
              /\ Len(Normal(last.query)) > Len(k) + 1 )
            => ( IsReadOnlyQueryType(last.result.queryType)
                    <=> k \in {"SELECT", "SHOW", "DESCRIBE", "EXPLAIN"} )

\* reached: DESCRIBE in mixed case after a tab is read-only
C12_Witness ==
    /\ last.op = "DetectQueryType"
    /\ last.query = "\tDescribe t"
    /\ IsReadOnlyQueryType(last.result.queryType)
    /\ last.result.queryType = QueryTypeDescribe

\* ------------------------------------------------------------------------
\* C13. ValidateQueryType returns no error exactly when the detected type is
\* one of the allowed types; otherwise a query-type-mismatch error whose
\* text is "expected ", every allowed label in the order given, ", got " and
\* the detected label.
\* ------------------------------------------------------------------------
\* text occurs in s at position p
OccursAt(s, text, p) == SubSeq(s, p, p + Len(text) - 1) = text

\* the labels occur in s one after the other, without overlap, from from on
RECURSIVE InOrderFrom(_, _, _, _)
InOrderFrom(s, labels, i, from) ==
    IF i > Len(labels) THEN TRUE
    ELSE \E p \in from..(Len(s) - Len(labels[i]) + 1) :
            /\ OccursAt(s, labels[i], p)
            /\ InOrderFrom(s, labels, i + 1, p + Len(labels[i]))

HasSuffix(s, suffix) ==
    Len(s) >= Len(suffix) /\ SubSeq(s, Len(s) - Len(suffix) + 1, Len(s)) = suffix

C13_ValidateMismatch ==
    last.op = "ValidateQueryType" =>
        LET detected == DetectQueryType(last.query)
            member == \E i \in 1..Len(last.allowed) : last.allowed[i] = detected
            labels == [i \in 1..Len(last.allowed) |-> GetQueryTypeLabel(last.allowed[i])]
            got == ", got " \o GetQueryTypeLabel(detected)
            expected == SubSeq(last.err.detail, 1, Len(last.err.detail) - Len(got))
        IN  /\ last.err = NoError <=> member
            /\ ~member =>
                  /\ last.err.kind = "QueryTypeMismatch"
                  /\ HasSuffix(last.err.detail, got)
                  /\ HasPrefix(expected, "expected ")
                  /\ InOrderFrom(expected, labels, 1, Len("expected ") + 1)
            /\ (~member /\ Len(last.allowed) = 1) =>
                  last.err.detail = "expected " \o labels[1] \o got

\* reached: an INSERT checked against SELECT
C13_Witness ==
    /\ last.op = "ValidateQueryType"
    /\ last.query = "INSERT INTO t VALUES (1)"
    /\ last.allowed = <<QueryTypeSelect>>
    /\ last.err.kind = "QueryTypeMismatch"
    /\ last.err.detail = "expected SELECT, got INSERT"

\* ------------------------------------------------------------------------
\* C15. A call of ExecuteQuery, ExecuteWrite, ExecuteAlter or ExecuteUnsafe
\* (each begins with GetConnection) for a connection name that is not in
\* the registry fails with the unknown-connection error whatever the
\* statement, takes the pool lock in no mode, makes no driver call and
\* leaves the pool map as it was.
\* ------------------------------------------------------------------------
ExecutionModes == {"ExecuteQuery", "ExecuteWrite", "ExecuteAlter", "ExecuteUnsafe"}

C15_UnknownConnection ==
    [][ ( /\ last'.op \in ExecutionModes
          /\ last.op = "idle"
          /\ last'.conn \notin DOMAIN config )
        => /\ last'.err.kind = "UnknownConnection"
           /\ last'.result = Nil
           /\ last'.locked = {}
           /\ last'.calls = << >>
           /\ connections' = connections ]_vars

\* reached: an unknown name while the pool holds an open handle, with a
\* statement the gates would refuse
C15_Witness ==
    /\ last.op = "ExecuteWrite"
    /\ last.conn = "ghost"
    /\ last.query = "DROP TABLE t"
    /\ last.err.kind = "UnknownConnection"
    /\ \E n \in DOMAIN connections : connections[n] = "open"

\* ------------------------------------------------------------------------
\* C18. After a call of GetConnection (made by any execution mode) has
\* returned, with success or with a connection-failure error, the pool map
\* does not map the name to a handle that the manager has closed.
\* ------------------------------------------------------------------------
C18_NoClosedEntry ==
    ( /\ last.op \in ExecutionModes
      /\ last.conn \in DOMAIN config )
    => connections[last.conn] # "closed"

\* ------------------------------------------------------------------------
\* C19. One call of an execution mode opens at most one handle and issues
\* at most one Query or Exec; a call refused by GetConnection or by a check
\* issues no statement; after a failed sql.Open nothing follows, after the
\* failed probe of a new handle only its Close, and after a failed or
\* undecodable statement nothing.
\* ------------------------------------------------------------------------
CountCalls(fns) == Cardinality({i \in 1..Len(last.calls) : last.calls[i].fn \in fns})

\* the calls made after the first call of fn
CallsAfter(fn) ==
    LET at == {i \in 1..Len(last.calls) : last.calls[i].fn = fn}
    IN  IF at = {} THEN << >>
        ELSE SubSeq(last.calls, (CHOOSE i \in at : \A j \in at : i <= j) + 1,
                    Len(last.calls))

GateErrors == {"QueryTypeMismatch", "ReadOnlyViolation", "DangerousOperationBlocked",
               "SensitiveAccessBlocked"}

C19_NoRetry ==
    last.op \in ExecutionModes =>
        /\ CountCalls({"Open"}) <= 1
        /\ CountCalls({"Query", "Exec"}) <= 1
        /\ last.err.kind \in GateErrors \cup {"UnknownConnection", "ConnectionFailure"}
              => ~SentToDriver
        /\ last.err.kind = "ConnectionFailure" =>
              /\ CalledDriver("Open")
              /\ \A i \in 1..Len(CallsAfter("Open")) :
                    CallsAfter("Open")[i].fn \in
                        {"SetMaxOpenConns", "SetMaxIdleConns", "Ping", "Close"}
              /\ Cardinality({i \in 1..Len(CallsAfter("Open")) :
                                 CallsAfter("Open")[i].fn = "Ping"}) <= 1
        /\ last.err.kind \in {"ExecutionFailure", "ResultDecodeFailure"} =>
              /\ SentToDriver
              /\ last.calls[Len(last.calls)].fn \in {"Query", "Exec"}

\* reached: a write whose dead handle was replaced and whose Exec failed:
\* one Open, one Exec, nothing after it
C19_Witness ==
    /\ last.op = "ExecuteWrite"
    /\ last.err.kind = "ExecutionFailure"
    /\ CountCalls({"Open"}) = 1
    /\ CountCalls({"Exec"}) = 1
    /\ CalledDriver("Close")
    /\ last.calls[Len(last.calls)].fn = "Exec"

\* ------------------------------------------------------------------------
\* Vocabulary of the interleaved properties
\* ------------------------------------------------------------------------
\* GetConnection has returned a handle to the handler
HasHandle(t) == callers[t].pc \in {"got", "use"}

\* the handles of a name that are open
OpenHandlesOf(name) ==
    {h \in 1..Len(handles) : handles[h].name = name /\ ~handles[h].closed}

\* the handler holds the write lock: it is between Lock (line 50) and the
\* return of GetConnection
Establishing(t) == callers[t].pc \in {"ping2", "close2", "open", "ping3"}

\* ------------------------------------------------------------------------
\* C14. Callers that call GetConnection for the same name while the pool
\* has no handle for it, with every probe and open answered and no
\* teardown: in every interleaving each of them returns the handle the map
\* holds for the name, which is the only open handle of that name, so both
\* return the same handle and no second handle is opened.
\* ------------------------------------------------------------------------
C14_OneHandle ==
    /\ \A t \in Callers :
          (HasHandle(t) /\ callers[t].quiet) =>
              /\ pool[callers[t].name] = callers[t].db
              /\ OpenHandlesOf(callers[t].name) = {callers[t].db}
    /\ \A t, u \in Callers :
          ( /\ HasHandle(t) /\ callers[t].quiet
            /\ HasHandle(u) /\ callers[u].quiet
            /\ callers[t].name = callers[u].name )
          => /\ callers[t].db = callers[u].db
             /\ Cardinality(OpenHandlesOf(callers[t].name)) = 1

\* reached: both handlers began on the empty pool and hold the one handle
C14_Witness ==
    /\ callers["h1"].pc = "use" /\ callers["h1"].quiet
    /\ callers["h2"].pc = "got" /\ callers["h2"].quiet
    /\ callers["h1"].name = "main" /\ callers["h2"].name = "main"
    /\ callers["h1"].db = 1 /\ callers["h2"].db = 1
    /\ Len(handles) = 1

\* ------------------------------------------------------------------------
\* C16. A call for a name whose pooled handle is healthy is never made to
\* wait for a caller that is establishing or replacing the handle of
\* another name: whenever such a call is about to read the pool map, the
\* write lock is not held by a caller working on a different name.
\* ------------------------------------------------------------------------
C16_NoCrossNameWait ==
    \A t \in Callers :
        ( /\ callers[t].pc = "rlock"
          /\ pool[callers[t].name] # 0
          /\ ~handles[pool[callers[t].name]].closed )
        => ~( /\ mu \in Callers
              /\ Establishing(mu)
              /\ callers[mu].name # callers[t].name )

\* ------------------------------------------------------------------------
\* C17. While a handler's statement is in flight on the handle that
\* GetConnection returned to it, that handle is closed by no step other
\* than the teardown's Close.
\* ------------------------------------------------------------------------
C17_HeldHandleNotClosed ==
    [][ \A t \in Callers :
          ( /\ callers[t].pc = "use"
            /\ ~handles[callers[t].db].closed
            /\ handles'[callers[t].db].closed )
          => teardown.pc = "held" ]_vars

\* ------------------------------------------------------------------------
\* C20 as stated: when Close returns every handle that was in the pool is
\* closed and the map is empty; Close does not wait for calls that are in
\* flight and does not interrupt them; a later GetConnection for a
\* configured name establishes a fresh handle.
\* ------------------------------------------------------------------------
\* the step in which Close returns
CloseReturns == teardown.pc = "held" /\ teardown'.pc = "idle"

CloseEmptiesPool ==
    CloseReturns =>
        /\ \A name \in DOMAIN pool : pool'[name] = 0
        /\ \A name \in DOMAIN pool : pool[name] # 0 => handles'[pool[name]].closed

\* every step of Close (the call, the lock, each db.Close of the loop, the
\* return) leaves every handler where it is
CloseInterruptsNobody == teardown' # teardown => callers' \in {callers, Disturb(callers)}

\* a GetConnection that was called after a Close had returned and that
\* returns a handle returns one opened after that Close: seen is the number
\* of handles that existed when the last Close before the call returned
LaterCallGetsFresh ==
    \A t \in Callers :
        (callers[t].pc # "got" /\ callers'[t].pc = "got")
        => callers'[t].db > callers[t].seen

\* Close, waiting in m.mu.Lock(), is not made to wait: the lock can be
\* granted
CloseNeverWaits == teardown.pc = "lock" => ENABLED CloseAcquire

C20_Original ==
    /\ [][CloseEmptiesPool /\ CloseInterruptsNobody /\ LaterCallGetsFresh]_vars
    /\ []CloseNeverWaits

\* the caller holds m.mu: the read lock (lines 36-38) or the write lock
\* (line 50 to the return of GetConnection)
HoldsLock(t) == callers[t].pc = "read" \/ Establishing(t)

\* Close, waiting in m.mu.Lock(), waits only while a caller holds m.mu
CloseWaitsForLockOnly ==
    teardown.pc = "lock" => (ENABLED CloseAcquire \/ \E t \in Callers : HoldsLock(t))

\* C20 amended: when Close returns every handle that was in the pool is
\* closed and the map is empty; Close interrupts no call that is in flight,
\* and it waits only for a call that holds the manager's mutex, that is a
\* GetConnection inside its read-locked map lookup or between Lock and its
\* return, never for a call that probes a pooled handle, has its handle
\* or has a statement in flight; a later GetConnection, one called after
\* Close has returned, that returns a handle returns a fresh one, opened
\* after that Close.
C20_Teardown ==
    /\ [][CloseEmptiesPool /\ CloseInterruptsNobody /\ LaterCallGetsFresh]_vars
    /\ []CloseWaitsForLockOnly
    /\ [](\A t \in Callers : mu = t <=> Establishing(t))
    /\ [](mu = "main" <=> teardown.pc = "held")
    /\ [](\A h \in 1..teardown.closedUpTo : handles[h].closed)

\* reached: Close has returned while a statement was in flight on the old
\* handle; that handler is still where it was and the other handler has a
\* handle opened after the Close
C20_Witness ==
    /\ teardown.pc = "idle"
    /\ teardown.closedUpTo = 1
    /\ callers["h1"].pc = "use" /\ callers["h1"].db = 1
    /\ handles[1].closed
    /\ callers["h2"].pc = "got" /\ callers["h2"].db = 2
    /\ callers["h2"].seen = 1
    /\ pool[callers["h2"].name] = 2

\* ------------------------------------------------------------------------
\* C22. When row iteration ends with a driver error before max_rows rows
\* were collected, ExecuteQuery and the read branch of ExecuteUnsafe return
\* an error and no QueryResult.
\* ------------------------------------------------------------------------
C22_StreamErrorSurfaced ==
    ( /\ last.op \in {"ExecuteQuery", "ExecuteUnsafe"}
      /\ CalledDriver("Query")
      /\ last.driver.fault = "next"
      /\ last.driver.at < config[last.conn].MaxRows )
    => /\ last.err # NoError
       /\ ReturnedQueryResult = Nil

\* ------------------------------------------------------------------------
\* C23. Under every connection policy the loader accepts, a returned
\* QueryResult has 0 <= Count <= max_rows of the policy.
\* ------------------------------------------------------------------------
C23_CountWithinPolicy ==
    ReturnedQueryResult # Nil =>
        /\ 0 <= ReturnedQueryResult.Count
        /\ ReturnedQueryResult.Count <= config[last.conn].MaxRows

\* ------------------------------------------------------------------------
\* C25 as stated: every row of a returned QueryResult has one entry per
\* element of Columns, and the entry of the i-th column holds the value the
\* driver returned in position i of the row, raw bytes converted to text.
\* ------------------------------------------------------------------------
\* what the caller is to see for a value of the driver
AsReturned(val) == IF val.type = "[]byte" THEN [type |-> "string", v |-> val.v] ELSE val

\* the names of a column list
NamesOf(columns) == {columns[j] : j \in 1..Len(columns)}

\* no later column of the list has the name of column i
LastOfItsName(columns, i) ==
    \A j \in 1..Len(columns) : columns[j] = columns[i] => j <= i

C25_Original ==
    ReturnedQueryResult # Nil =>
        LET qr == ReturnedQueryResult
        IN  \A r \in 1..Len(qr.Rows) :
                /\ Cardinality(DOMAIN qr.Rows[r]) = Len(qr.Columns)
                /\ \A i \in 1..Len(qr.Columns) :
                      qr.Rows[r][qr.Columns[i]] = AsReturned(DriverValue(r, i))

\* C25 amended: every row of a returned QueryResult has one entry per
\* distinct name of Columns, and the entry of a name holds the value the
\* driver returned in the last position of the row that carries the name,
\* raw bytes converted to text and every other value unchanged; when no
\* name occurs twice this is one entry per element of Columns, the i-th
\* holding the value of position i.
C25_RowEntries ==
    ReturnedQueryResult # Nil =>
        LET qr == ReturnedQueryResult
        IN  \A r \in 1..Len(qr.Rows) :
                /\ DOMAIN qr.Rows[r] = NamesOf(qr.Columns)
                /\ \A i \in 1..Len(qr.Columns) :
                      LastOfItsName(qr.Columns, i) =>
                          qr.Rows[r][qr.Columns[i]] = AsReturned(DriverValue(r, i))
                /\ Cardinality(NamesOf(qr.Columns)) = Len(qr.Columns) =>
                      Cardinality(DOMAIN qr.Rows[r]) = Len(qr.Columns)

\* reached: the driver reported the name id twice; the row has the one
\* entry id, which holds the text made of the bytes of position 2
C25_Witness ==
    /\ last.op = "ExecuteQuery"
    /\ last.err = NoError
    /\ last.result.Columns = <<"id", "id">>
    /\ Len(last.result.Rows) >= 2
    /\ DOMAIN last.result.Rows[2] = {"id"}
    /\ DriverValue(2, 2).type = "[]byte"
    /\ last.result.Rows[2]["id"] = [type |-> "string", v |-> 22]

\* ------------------------------------------------------------------------
\* C24. No handle is leaked: whenever no GetConnection and no Close is in
\* progress, every handle the manager has opened is closed or is the pool
\* map's entry for its name; a new handle whose first probe fails is closed
\* and not stored; a handle replaced in the map was closed before; in every
\* interleaving of GetConnection and Close with any probe outcomes.
\* ------------------------------------------------------------------------
\* no handler is inside GetConnection and main is not inside Close
NoCallInProgress ==
    /\ \A t \in Callers : callers[t].pc \in {"idle", "got", "use", "returned", "failed"}
    /\ teardown.pc = "idle"

\* handle h is closed or is the map's entry for its name
ClosedOrPooled(h) == handles[h].closed \/ pool[handles[h].name] = h

\* the step in which the probe of a new handle fails closes the handle and
\* leaves the map as it is
FailedNewHandleClosed ==
    \A t \in Callers :
        (callers[t].pc = "ping3" /\ callers'[t].pc = "failed")
        => /\ handles'[callers[t].db].closed
           /\ pool' = pool

\* a step that puts another handle in the place of a map entry finds the
\* old handle closed
ReplacedWasClosed ==
    \A name \in DOMAIN pool :
        (pool[name] # 0 /\ pool'[name] \notin {0, pool[name]})
        => handles[pool[name]].closed

C24_NoLeak ==
    /\ [](NoCallInProgress => \A h \in 1..Len(handles) : ClosedOrPooled(h))
    /\ [](\A name \in DOMAIN pool : pool[name] # 0 => handles[pool[name]].name = name)
    /\ [][FailedNewHandleClosed /\ ReplacedWasClosed]_vars

\* reached: the first handle of main died, was closed and was replaced in
\* the map by the second; both handlers are outside GetConnection, one with
\* a statement in flight on the second handle, the other back from a call
\* that failed
C24_Witness ==
    /\ NoCallInProgress
    /\ Len(handles) = 2
    /\ \A h \in 1..2 : handles[h].name = "main"
    /\ handles[1].closed /\ ~handles[2].closed
    /\ pool["main"] = 2
    /\ callers["h1"].pc = "use" /\ callers["h1"].db = 2
    /\ callers["h2"].pc = "failed"

\* ------------------------------------------------------------------------
\* C21. When the context of a tool call is cancelled while the driver call
\* made for it (probe, Query or Exec) is in flight, that driver call is
\* aborted and the call returns an error: the step that ends the driver
\* call is the return of an error, never a success and never the next step
\* of the call.
\* ------------------------------------------------------------------------
\* the step in which the driver call of t that is in flight ends
DriverCallEnds(t) ==
    /\ callers[t].pc \in InFlight
    /\ callers'[t].pc # callers[t].pc

C21_CancelAborts ==
    [][ \A t \in Callers :
          (callers[t].cancelled /\ DriverCallEnds(t)) => callers'[t].pc = "failed" ]_vars

====
